---------------------------- MODULE Spec2Model ----------------------------
(***************************************************************************)
(* Object-Paint-Agent: the mask-to-recolor pipeline and its UI session.    *)
(*                                                                         *)
(* Each pure function of the pipeline is an operator, applied by one       *)
(* action of a small specification whose Init draws the arguments:         *)
(*   SpecColor    parse_color_to_rgb            (app/ml/recolor.py)        *)
(*   SpecRecolor  recolor_masked_region         (app/ml/recolor.py)        *)
(*   SpecRefine   refine_mask                   (app/ml/refine.py)         *)
(*   SpecShadow   expand_mask_to_include_shadow (app/ml/refine.py)         *)
(*   SpecRect     segment_from_rect             (app/ml/segment.py)        *)
(*   SpecPoints   segment_from_points + SAM2 wrapper (segment.py,          *)
(*                sam2_wrapper.py), two overlapping callers                *)
(*   SpecReplay   recolor_masked_region called repeatedly                  *)
(*   SpecMatch    _build_color_match_mask at one pixel (app/ml/recolor.py) *)
(*   SpecPaint    recolor_masked_region at one pixel (app/ml/recolor.py)   *)
(*   SpecSeed     _grabcut_from_points (app/ml/segment.py)                 *)
(*   SpecDetect   detect_objects + GroundingDINO wrapper (detect.py,        *)
(*                grounding_dino_wrapper.py), two overlapping callers      *)
(*   Spec         the Gradio session handlers   (app/ui.py)                *)
(*                                                                         *)
(* Conventions.  Text is a sequence of one-character strings.  Real        *)
(* numbers are exact rationals, in the unit each section names (tenths,    *)
(* 255ths) or as [num, den]; a cast to float32 rounds to 24 bits where the *)
(* section says so.                                                        *)
(***************************************************************************)
EXTENDS Integers, Sequences, FiniteSets, TLC

VARIABLES
    parse_args,     \* parse_color_to_rgb: the argument `value` (and how it was written)
    parse_ret,      \* parse_color_to_rgb: the result, or the exception raised
    recolor_args,   \* recolor_masked_region: image, mask, target_hex, strength, ...
    recolor_ret,    \* recolor_masked_region: the returned RGBA image
    refine_args,    \* refine_mask: mask, morph_kernel, feather_px, mask_threshold
    refine_ret,     \* refine_mask: the returned mask
    shadow_args,    \* expand_mask_to_include_shadow: image, mask, dilation_px, threshold
    shadow_ret,     \* expand_mask_to_include_shadow: the returned mask
    rect_args,      \* segment_from_rect: image size and the four percentages
    rect_ret,       \* segment_from_rect: the box handed to GrabCut, before and after re-clamping
    sam2_predictor, \* sam2_wrapper._sam2_predictor, the process-wide cached predictor
    callers,        \* segment_from_points: each caller's position, arguments and result
    seed_args,      \* _grabcut_from_points: image size, points, seed_radius
    seed_ret,       \* _grabcut_from_points: the GrabCut mask as seeded and as returned
    paint_args,     \* recolor_masked_region at one pixel: pixel, mask value, target, strength
    paint_ret,      \* recolor_masked_region at one pixel: hues, effective mask, painted and output pixel
    recolor_log,    \* recolor_masked_region called repeatedly: the NumPy build and the calls so far
    match_args,     \* _build_color_match_mask: pixel, object mask, source colour, tolerance
    match_ret,      \* _build_color_match_mask: the weights and the returned mask value
    model_cache,    \* grounding_dino_wrapper._model_cache, the process-wide cached model
    detectors,      \* detect_objects: each caller's position, arguments and result
    state,          \* ui.py: the gr.State session dictionary
    last,           \* ui.py: the handler call made last: arguments, pipeline stages run, outputs
    history         \* ui.py: which handlers have succeeded so far, and the user's last selection

colorVars == <<parse_args, parse_ret>>
recolorVars == <<recolor_args, recolor_ret>>
refineVars == <<refine_args, refine_ret>>
shadowVars == <<shadow_args, shadow_ret>>
rectVars == <<rect_args, rect_ret>>
pointsVars == <<sam2_predictor, callers>>
paintVars == <<paint_args, paint_ret>>
seedVars == <<seed_args, seed_ret>>
replayVars == <<recolor_log>>
matchVars == <<match_args, match_ret>>
detectVars == <<model_cache, detectors>>
uiVars == <<state, last, history>>

vars == <<parse_args, parse_ret, recolor_args, recolor_ret, refine_args, refine_ret,
          shadow_args, shadow_ret, rect_args, rect_ret, sam2_predictor, callers,
          seed_args, seed_ret, paint_args, paint_ret, recolor_log, match_args, match_ret, model_cache, detectors, state, last, history>>

Pending == [kind |-> "pending"]
Returned(value) == [kind |-> "return", value |-> value]
Idle == [kind |-> "idle"]
None == [kind |-> "None"]

\* the parts of the program a specification does not exercise stay idle
ColorIdle == parse_args = Idle /\ parse_ret = Idle
RecolorIdle == recolor_args = Idle /\ recolor_ret = Idle
RefineIdle == refine_args = Idle /\ refine_ret = Idle
ShadowIdle == shadow_args = Idle /\ shadow_ret = Idle
RectIdle == rect_args = Idle /\ rect_ret = Idle
PointsIdle == sam2_predictor = Idle /\ callers = Idle
MatchIdle == match_args = Idle /\ match_ret = Idle
ReplayIdle == recolor_log = Idle
PaintIdle == paint_args = Idle /\ paint_ret = Idle
SeedIdle == seed_args = Idle /\ seed_ret = Idle
DetectIdle == model_cache = Idle /\ detectors = Idle
UiIdle == state = Idle /\ last = Idle /\ history = Idle

Min(a, b) == IF a <= b THEN a ELSE b
Max(a, b) == IF a >= b THEN a ELSE b

(***************************************************************************)
(* Text helpers (Python str methods used by recolor.py).                   *)
(***************************************************************************)
WhitespaceChars == {" "}
DecDigits == <<"0", "1", "2", "3", "4", "5", "6", "7", "8", "9">>
HexLower == <<"a", "b", "c", "d", "e", "f">>
HexUpper == <<"A", "B", "C", "D", "E", "F">>
DigitChars == {DecDigits[i] : i \in 1..10}
HexChars == DigitChars \cup {HexLower[i] : i \in 1..6} \cup {HexUpper[i] : i \in 1..6}

\* value of one hexadecimal digit
HexVal(c) ==
    IF c \in DigitChars THEN (CHOOSE i \in 1..10 : DecDigits[i] = c) - 1
    ELSE IF \E i \in 1..6 : HexLower[i] = c THEN 9 + (CHOOSE i \in 1..6 : HexLower[i] = c)
    ELSE 9 + (CHOOSE i \in 1..6 : HexUpper[i] = c)

\* str.lower() on one character
LowerChar(c) ==
    IF c = "R" THEN "r" ELSE IF c = "G" THEN "g"
    ELSE IF \E i \in 1..6 : HexUpper[i] = c THEN HexLower[CHOOSE i \in 1..6 : HexUpper[i] = c]
    ELSE c

Lower(s) == [i \in 1..Len(s) |-> LowerChar(s[i])]

\* s[i:j] with 1-based inclusive bounds, empty when j < i
Slice(s, i, j) == IF j < i THEN <<>> ELSE SubSeq(s, i, Min(j, Len(s)))

\* first position >= i of s holding a character outside set cs (Len(s)+1 if none)
SkipChars(s, i, cs) ==
    CHOOSE j \in i..(Len(s) + 1) :
        /\ \A k \in i..(j - 1) : s[k] \in cs
        /\ (j = Len(s) + 1 \/ s[j] \notin cs)

\* last position <= i of s holding a character outside set cs (0 if none)
SkipCharsBack(s, i, cs) ==
    CHOOSE j \in 0..i :
        /\ \A k \in (j + 1)..i : s[k] \in cs
        /\ (j = 0 \/ s[j] \notin cs)

Strip(s) ==
    LET a == SkipChars(s, 1, WhitespaceChars)
        b == SkipCharsBack(s, Len(s), WhitespaceChars)
    IN  Slice(s, a, b)

LStrip(s, cs) == Slice(s, SkipChars(s, 1, cs), Len(s))

StartsWith(s, p) == Len(s) >= Len(p) /\ SubSeq(s, 1, Len(p)) = p

Contains(s, p) == \E i \in 1..(Len(s) - Len(p) + 1) : SubSeq(s, i, i + Len(p) - 1) = p

(***************************************************************************)
(* Python number conversions.                                              *)
(***************************************************************************)
RECURSIVE DigitsValue(_, _)
\* the value of a run of digits in the given base
DigitsValue(s, base) ==
    IF Len(s) = 0 THEN 0
    ELSE DigitsValue(SubSeq(s, 1, Len(s) - 1), base) * base + HexVal(s[Len(s)])

RECURSIVE Pow10(_)
Pow10(k) == IF k = 0 THEN 1 ELSE 10 * Pow10(k - 1)

ValueError == [kind |-> "raise", exc |-> "ValueError"]

\* int(text, 16): surrounding whitespace and one sign are accepted, then hex digits
IntBase16(text) ==
    LET t == Strip(text)
        signed == Len(t) > 0 /\ t[1] \in {"+", "-"}
        digits == IF signed THEN Slice(t, 2, Len(t)) ELSE t
    IN  IF Len(digits) = 0 \/ \E i \in 1..Len(digits) : digits[i] \notin HexChars
        THEN ValueError
        ELSE [kind |-> "int",
              val |-> IF signed /\ t[1] = "-" THEN 0 - DigitsValue(digits, 16)
                      ELSE DigitsValue(digits, 16)]

\* float(text) for a text of digits and dots (what the regex group [\d.]+ captures):
\* the rational n/d, or ValueError when there is no digit or more than one dot
FloatOf(text) ==
    LET dots == {i \in 1..Len(text) : text[i] = "."}
        digs == SelectSeq(text, LAMBDA c : c # ".")
    IN  IF Cardinality(dots) > 1 \/ Len(digs) = 0 THEN ValueError
        ELSE [kind |-> "float",
              n |-> DigitsValue(digs, 10),
              d |-> IF dots = {} THEN 1 ELSE Pow10(Len(text) - (CHOOSE i \in dots : TRUE))]

\* round(n/d) for n >= 0: Python 3 rounds halves to the even integer
PyRound(n, d) ==
    LET q == n \div d
        r2 == 2 * (n % d)
    IN  IF r2 < d THEN q
        ELSE IF r2 > d THEN q + 1
        ELSE IF q % 2 = 0 THEN q ELSE q + 1

(***************************************************************************)
(* recolor.py: hex_to_rgb, parse_color_to_rgb                              *)
(***************************************************************************)
Rgb(r, g, b) == [kind |-> "rgb", r |-> r, g |-> g, b |-> b]

FallbackRed == Rgb(255, 0, 0)

\* tuple(int(h[i:i+2], 16) for i in (0, 2, 4)); a failing int() raises ValueError
HexPairs(h) ==
    LET p1 == IntBase16(Slice(h, 1, 2))
        p2 == IntBase16(Slice(h, 3, 4))
        p3 == IntBase16(Slice(h, 5, 6))
    IN  IF p1.kind = "raise" \/ p2.kind = "raise" \/ p3.kind = "raise" THEN ValueError
        ELSE Rgb(p1.val, p2.val, p3.val)

hex_to_rgb(hex_color) ==
    LET h == LStrip(hex_color, {"#"})
    IN  IF Len(h) # 6 THEN ValueError ELSE HexPairs(h)

\* re.match(r"rgba?\s*\(\s*([\d.]+)\s*,\s*([\d.]+)\s*,\s*([\d.]+)", s):
\* the three captured groups, or no match
NumChars == DigitChars \cup {"."}

RgbaMatch(s) ==
    LET ch(i) == IF i <= Len(s) THEN s[i] ELSE "<end>"
        p1 == IF ch(4) = "a" THEN 5 ELSE 4
        p2 == SkipChars(s, p1, WhitespaceChars)
        b1 == SkipChars(s, p2 + 1, WhitespaceChars)
        e1 == SkipChars(s, b1, NumChars)
        c1 == SkipChars(s, e1, WhitespaceChars)
        b2 == SkipChars(s, c1 + 1, WhitespaceChars)
        e2 == SkipChars(s, b2, NumChars)
        c2 == SkipChars(s, e2, WhitespaceChars)
        b3 == SkipChars(s, c2 + 1, WhitespaceChars)
        e3 == SkipChars(s, b3, NumChars)
    IN  IF /\ Len(s) >= 3 /\ SubSeq(s, 1, 3) = <<"r", "g", "b">>
           /\ ch(p2) = "("
           /\ b1 <= Len(s) /\ e1 > b1
           /\ ch(c1) = ","
           /\ b2 <= Len(s) /\ e2 > b2
           /\ ch(c2) = ","
           /\ b3 <= Len(s) /\ e3 > b3
        THEN [matched |-> TRUE, g1 |-> Slice(s, b1, e1 - 1),
              g2 |-> Slice(s, b2, e2 - 1), g3 |-> Slice(s, b3, e3 - 1)]
        ELSE [matched |-> FALSE]

\* int(round(min(255, max(0, x)))) for x = n/d >= 0
ClampRound(n, d) == IF n >= 255 * d THEN 255 ELSE PyRound(n, d)

\* lines 33-37: the rgb()/rgba() branch; float() is called outside any try
RgbaBranch(m) ==
    LET r == FloatOf(m.g1)
        g == FloatOf(m.g2)
        b == FloatOf(m.g3)
    IN  IF r.kind = "raise" \/ g.kind = "raise" \/ b.kind = "raise" THEN ValueError
        ELSE LET unit == r.n <= r.d /\ g.n <= g.d /\ b.n <= b.d
                 k == IF unit THEN 255 ELSE 1
             IN  Rgb(ClampRound(r.n * k, r.d), ClampRound(g.n * k, g.d),
                     ClampRound(b.n * k, b.d))

\* lines 38-41: try: return hex_to_rgb(s) except ValueError: return (255, 0, 0)
HexFallback(s) ==
    LET res == hex_to_rgb(s)
    IN  IF res.kind = "raise" THEN FallbackRed ELSE res

\* value: [str |-> BOOLEAN, text |-> sequence of characters]; a non-string has no text
parse_color_to_rgb(value) ==
    IF ~value.str \/ Len(value.text) = 0 THEN FallbackRed
    ELSE
      LET s0 == Strip(value.text)
          s == IF StartsWith(s0, <<"#">>) /\ Contains(Lower(s0), <<"r", "g", "b", "a">>)
               THEN Strip(LStrip(s0, {"#"})) ELSE s0
          hex_part == IF StartsWith(s, <<"#">>) THEN LStrip(s, {"#"}) ELSE s
          m == RgbaMatch(s)
      IN  IF Len(hex_part) >= 6 /\ \A i \in 1..6 : hex_part[i] \in HexChars
          THEN HexPairs(hex_part)
          ELSE IF m.matched THEN RgbaBranch(m)
          ELSE HexFallback(s)

(***************************************************************************)
(* SpecColor: the colour strings handed to parse_color_to_rgb.  A string   *)
(* is written either as hex digits (optional '#'s, two or three digit      *)
(* pairs, an optional tail) or as rgb(...)/rgba(...) with three            *)
(* components, optionally an alpha, optionally spaced; both optionally     *)
(* padded with blanks.  `form` records how the string was written.         *)
(***************************************************************************)
MaxHashes == 2
MaxPairs == 3

\* digit pairs with the byte each denotes (ok = two hexadecimal digits)
HexPairTable ==
    {[text |-> <<"0", "0">>, ok |-> TRUE, byte |-> 0],
     [text |-> <<"f", "f">>, ok |-> TRUE, byte |-> 255],
     [text |-> <<"7", "F">>, ok |-> TRUE, byte |-> 127],
     [text |-> <<"1", "a">>, ok |-> TRUE, byte |-> 26],
     [text |-> <<"-", "1">>, ok |-> FALSE, byte |-> 0],
     [text |-> <<"+", "2">>, ok |-> FALSE, byte |-> 0],
     [text |-> <<"g", "0">>, ok |-> FALSE, byte |-> 0]}

HexTails == {<<>>, <<"8", "0">>, <<"z", "z">>, <<"0">>}

CssNames ==
    {<<"r", "g", "b">>, <<"r", "g", "b", "a">>, <<"R", "G", "B">>,
     <<"#", "r", "g", "b", "a">>, <<"#", "r", "g", "b">>}

\* component texts with the number each denotes (ok = a well-formed decimal)
NumTable ==
    {[text |-> <<"0">>, ok |-> TRUE, n |-> 0, d |-> 1],
     [text |-> <<"1">>, ok |-> TRUE, n |-> 1, d |-> 1],
     [text |-> <<"0", ".", "5">>, ok |-> TRUE, n |-> 1, d |-> 2],
     [text |-> <<".", "2", "5">>, ok |-> TRUE, n |-> 1, d |-> 4],
     [text |-> <<"2", ".", "5">>, ok |-> TRUE, n |-> 5, d |-> 2],
     [text |-> <<"1", "2", "8", ".">>, ok |-> TRUE, n |-> 128, d |-> 1],
     [text |-> <<"3", "0", "0">>, ok |-> TRUE, n |-> 300, d |-> 1],
     [text |-> <<"1", ".", "2", ".", "3">>, ok |-> FALSE, n |-> 0, d |-> 1],
     [text |-> <<".">>, ok |-> FALSE, n |-> 0, d |-> 1],
     [text |-> <<"-", "1">>, ok |-> FALSE, n |-> 0, d |-> 1]}

RECURSIVE Repeat(_, _)
Repeat(s, k) == IF k = 0 THEN <<>> ELSE s \o Repeat(s, k - 1)

RECURSIVE Flatten(_)
Flatten(ss) == IF Len(ss) = 0 THEN <<>> ELSE Head(ss) \o Flatten(Tail(ss))

Padded(pad, s) == IF pad THEN <<" ">> \o s \o <<" ">> ELSE s

HexForms ==
    [kind : {"hex"}, hashes : 0..MaxHashes,
     pairs : UNION {[1..k -> HexPairTable] : k \in 2..MaxPairs},
     tail : HexTails, pad : BOOLEAN]

CssForms ==
    [kind : {"css"}, name : CssNames, comps : [1..3 -> NumTable],
     alpha : BOOLEAN, spaced : BOOLEAN]

OtherForms == {[kind |-> "none"], [kind |-> "int"], [kind |-> "empty"]}

ColorForms == HexForms \cup CssForms \cup OtherForms

HexDigitsOf(f) == Flatten([i \in 1..Len(f.pairs) |-> f.pairs[i].text]) \o f.tail

TextOf(f) ==
    IF f.kind = "hex" THEN Padded(f.pad, Repeat(<<"#">>, f.hashes) \o HexDigitsOf(f))
    ELSE IF f.kind = "css" THEN
        LET sep == IF f.spaced THEN <<" ", ",", " ">> ELSE <<",">>
            open == IF f.spaced THEN <<" ", "(", " ">> ELSE <<"(">>
        IN  f.name \o open \o f.comps[1].text \o sep \o f.comps[2].text \o sep
              \o f.comps[3].text \o (IF f.alpha THEN sep \o <<"1">> ELSE <<>>) \o <<")">>
    ELSE <<>>

ValueOf(f) == [str |-> f.kind \in {"hex", "css", "empty"}, text |-> TextOf(f)]

InitColor ==
    /\ \E f \in ColorForms : parse_args = [value |-> ValueOf(f), form |-> f]
    /\ parse_ret = Pending
    /\ RecolorIdle /\ RefineIdle /\ ShadowIdle /\ RectIdle /\ PointsIdle /\ DetectIdle /\ SeedIdle /\ UiIdle
    /\ MatchIdle /\ ReplayIdle /\ PaintIdle

ParseColor ==
    /\ parse_ret = Pending
    /\ parse_ret' = parse_color_to_rgb(parse_args.value)
    /\ UNCHANGED <<parse_args, recolorVars, refineVars, shadowVars, rectVars,
                   pointsVars, matchVars, replayVars, paintVars, detectVars, seedVars, uiVars>>

NextColor == ParseColor

SpecColor == InitColor /\ [][NextColor]_vars

Abs(x) == IF x < 0 THEN 0 - x ELSE x

\* the reference rule of the colour contract, read off the written form
IsRgbName(name) == name \in {<<"r", "g", "b">>, <<"r", "g", "b", "a">>}

Accepted(f) ==
    \/ /\ f.kind = "hex" /\ f.hashes <= 1 /\ ~f.pad
       /\ \A i \in 1..Len(f.pairs) : f.pairs[i].ok
       /\ \/ Len(f.pairs) = 3 /\ f.tail \in {<<>>, <<"8", "0">>}
          \/ Len(f.pairs) = 4 /\ f.tail = <<>>
    \/ /\ f.kind = "css" /\ IsRgbName(f.name)
       /\ \A i \in 1..3 : f.comps[i].ok

\* the integer nearest to min(255, n/d), halves to the even one
RefRound(n, d) ==
    LET c == IF n > 255 * d THEN 255 * d ELSE n
    IN  CHOOSE z \in 0..255 :
            /\ 2 * Abs(z * d - c) <= d
            /\ (2 * Abs(z * d - c) = d => z % 2 = 0)

Reference(f) ==
    IF f.kind = "hex" THEN Rgb(f.pairs[1].byte, f.pairs[2].byte, f.pairs[3].byte)
    ELSE LET unit == \A i \in 1..3 : f.comps[i].n <= f.comps[i].d
             k == IF unit THEN 255 ELSE 1
         IN  Rgb(RefRound(k * f.comps[1].n, f.comps[1].d),
                 RefRound(k * f.comps[2].n, f.comps[2].d),
                 RefRound(k * f.comps[3].n, f.comps[3].d))

\* inputs the colour contract names as unparseable: no string, empty, or an
\* rgb()/rgba() form with a malformed component (1.2.3, ., -1)
Unparseable(f) ==
    \/ f.kind \in {"none", "int", "empty"}
    \/ /\ f.kind = "css" /\ IsRgbName(f.name)
       /\ \E i \in 1..3 : ~f.comps[i].ok

ParseDone == parse_ret \notin {Pending, Idle}

\* C6: parse_color_to_rgb never raises: every call ends with a colour, and an
\* input that is no string, is empty, or is an rgb()/rgba() form with a
\* malformed component (such as 1.2.3 or .) yields the fallback (255, 0, 0).
C6_NeverRaises ==
    ParseDone =>
        /\ parse_ret.kind = "rgb"
        /\ (Unparseable(parse_args.form) => parse_ret = FallbackRed)

\* C7, first half: on every accepted form the result is the reference colour.
C7_AgreesOnAccepted ==
    (ParseDone /\ Accepted(parse_args.form)) => parse_ret = Reference(parse_args.form)

\* C7, second half: every returned component is an integer in 0..255.
C7_InRange ==
    (ParseDone /\ parse_ret.kind = "rgb") =>
        parse_ret.r \in 0..255 /\ parse_ret.g \in 0..255 /\ parse_ret.b \in 0..255

\* C7: parse_color_to_rgb agrees with the reference rule on every accepted
\* form, and every component it returns is an integer in 0..255.
C7_ReferenceAndRange == C7_AgreesOnAccepted /\ C7_InRange

(***************************************************************************)
(* segment.py: segment_from_rect, _grabcut_from_rect                       *)
(* A percentage is an integer number of tenths of a percent (ui.py rounds  *)
(* the detected boxes to one decimal), so pct/100*size = tenths*size/1000. *)
(***************************************************************************)
\* round(n/d) for any sign: Python rounds halves to even on both sides of zero
PyRoundSigned(n, d) == IF n >= 0 THEN PyRound(n, d) ELSE 0 - PyRound(0 - n, d)

\* int(round(pct / 100.0 * size))
PctToPixel(tenths, size) == PyRoundSigned(tenths * size, 1000)

\* lines 80-85: the rect _grabcut_from_rect hands to cv2.grabCut
grabcut_from_rect(img_w, img_h, x0, y0, w0, h0) ==
    LET x == Max(0, Min(x0, img_w - 1))
        y == Max(0, Min(y0, img_h - 1))
        w == Max(1, Min(w0, img_w - x))
        h == Max(1, Min(h0, img_h - y))
    IN  [x |-> x, y |-> y, w |-> w, h |-> h]

\* segment_from_rect without the max(x + 1, ...) / max(y + 1, ...) of lines 110-111
segment_from_rect_NoMinSize(w, h, left_pct, top_pct, right_pct, bottom_pct) ==
    LET x == Max(0, Min(PctToPixel(left_pct, w), w - 1))
        y == Max(0, Min(PctToPixel(top_pct, h), h - 1))
        x2 == Min(PctToPixel(right_pct, w), w)
        y2 == Min(PctToPixel(bottom_pct, h), h)
    IN  [box |-> [x |-> x, y |-> y, w |-> x2 - x, h |-> y2 - y],
         rect |-> grabcut_from_rect(w, h, x, y, x2 - x, y2 - y),
         mode |-> "grabcut_rect"]

\* lines 103-115: the box computed from the percentages, the rect GrabCut is
\* initialised with (GC_INIT_WITH_RECT: nothing outside it can become
\* foreground), and the mode reported
segment_from_rect(w, h, left_pct, top_pct, right_pct, bottom_pct) ==
    LET x == Max(0, Min(PctToPixel(left_pct, w), w - 1))
        y == Max(0, Min(PctToPixel(top_pct, h), h - 1))
        x2 == Max(x + 1, Min(PctToPixel(right_pct, w), w))
        y2 == Max(y + 1, Min(PctToPixel(bottom_pct, h), h))
        box_w == x2 - x
        box_h == y2 - y
    IN  [box |-> [x |-> x, y |-> y, w |-> box_w, h |-> box_h],
         rect |-> grabcut_from_rect(w, h, x, y, box_w, box_h),
         mode |-> "grabcut_rect"]

MaxSide == 3

\* percentages in tenths: below 0, the slider range, a half-pixel case, above 100
PctValues == {-100, 0, 150, 500, 833, 1000, 1300}

InitRect ==
    /\ \E w \in 1..MaxSide, h \in 1..MaxSide, l \in PctValues, t \in PctValues,
          r \in PctValues, b \in PctValues :
          rect_args = [w |-> w, h |-> h, left_pct |-> l, top_pct |-> t,
                       right_pct |-> r, bottom_pct |-> b]
    /\ rect_ret = Pending
    /\ ColorIdle /\ RecolorIdle /\ RefineIdle /\ ShadowIdle /\ PointsIdle /\ DetectIdle /\ SeedIdle /\ UiIdle
    /\ MatchIdle /\ ReplayIdle /\ PaintIdle

SegmentRect ==
    /\ rect_ret = Pending
    /\ rect_ret' = segment_from_rect(rect_args.w, rect_args.h, rect_args.left_pct,
                                     rect_args.top_pct, rect_args.right_pct,
                                     rect_args.bottom_pct)
    /\ UNCHANGED <<rect_args, colorVars, recolorVars, refineVars, shadowVars,
                   pointsVars, matchVars, replayVars, paintVars, detectVars, seedVars, uiVars>>

NextRect == SegmentRect

SpecRect == InitRect /\ [][NextRect]_vars

RectDone == rect_ret \notin {Pending, Idle}

\* C9: for every image of width and height >= 1 and every four percentages
\* (out of range or inverted ones included) the box segment_from_rect passes
\* on lies inside the image and is at least one pixel wide and high, and the
\* second clamping in _grabcut_from_rect leaves it unchanged.
C9_BoxInsideImage ==
    RectDone =>
        LET bx == rect_ret.box
        IN  /\ 0 <= bx.x /\ bx.x < bx.x + bx.w /\ bx.x + bx.w <= rect_args.w
            /\ 0 <= bx.y /\ bx.y < bx.y + bx.h /\ bx.y + bx.h <= rect_args.h
            /\ rect_ret.rect = bx

\* an inverted, out-of-range rectangle has been resolved to a one-pixel box
C9_InvertedClamped ==
    /\ RectDone
    /\ rect_args.left_pct > rect_args.right_pct /\ rect_args.left_pct > 1000
    /\ rect_args.bottom_pct < 0
    /\ rect_args.w = MaxSide
    /\ rect_ret.box.w = 1 /\ rect_ret.box.x = rect_args.w - 1

(***************************************************************************)
(* Arrays and the OpenCV calls of refine.py.  A 2-D array is a sequence of *)
(* rows.  A float64 value is an exact rational; .astype(np.float32) rounds *)
(* it to a 24-bit significand, round-half-even, as IEEE 754 does.          *)
(***************************************************************************)
\* the array computed once, element by element (a sequence of row sequences)
ndarray(g) == [r \in 1..Len(g) |-> g[r] \o <<>>] \o <<>>

Rows(g) == Len(g)

Cols(g) == Len(g[1])

Cells(g) == (1..Rows(g)) \X (1..Cols(g))

SetMax(S) == CHOOSE x \in S : \A y \in S : y <= x

SetMin(S) == CHOOSE x \in S : \A y \in S : x <= y

Clip(x, lo, hi) == Max(lo, Min(hi, x))

\* x | 1 for a Python int
BitOr1(x) == IF x % 2 = 1 THEN x ELSE x + 1

\* ndarray.astype(np.float32) of the float64 n/d, 0 <= n/d <= 1: [num, den]
Float32(n, d) ==
    IF n = 0 THEN [num |-> 0, den |-> 1]
    ELSE LET k == CHOOSE e \in 23..27 : n * 2^e >= d * 2^23 /\ n * 2^e < d * 2^24
         IN  [num |-> PyRound(n * 2^k, d), den |-> 2^k]

\* cv2.getStructuringElement(cv2.MORPH_ELLIPSE, (k, k)): is the element at
\* offset (dy, dx) from the anchor (the centre) set.  Row dy holds the columns
\* within cvRound(sqrt(r*r - dy*dy)) of the centre, and m <= cvRound(sqrt(n))
\* iff m = 0 or (2m - 1)^2 <= 4n.
InEllipse(k, dy, dx) ==
    LET r == k \div 2
    IN  /\ Abs(dy) <= r
        /\ Abs(dx) <= r
        /\ \/ dx = 0
           \/ (2 * Abs(dx) - 1) * (2 * Abs(dx) - 1) <= 4 * (r * r - dy * dy)

\* the pixels of g under the kernel anchored at (r, c); the border is ignored
Under(g, k, r, c) == {g[p[1]][p[2]] : p \in {q \in Cells(g) : InEllipse(k, q[1] - r, q[2] - c)}}

\* cv2.dilate(g, kernel)
dilate(g, k) ==
    ndarray([r \in 1..Rows(g) |-> [c \in 1..Cols(g) |-> SetMax(Under(g, k, r, c))]])

\* cv2.erode(g, kernel)
erode(g, k) ==
    ndarray([r \in 1..Rows(g) |-> [c \in 1..Cols(g) |-> SetMin(Under(g, k, r, c))]])

\* cv2.cvtColor(rgb, cv2.COLOR_RGB2GRAY) on 8-bit pixels (14-bit fixed point)
RGB2GRAY(px) == (px[1] * 4899 + px[2] * 9617 + px[3] * 1868 + 8192) \div 16384

(***************************************************************************)
(* refine.py: expand_mask_to_include_shadow.  The mask and the threshold   *)
(* are given in tenths; the result is a grid of float32 values [num, den]. *)
(***************************************************************************)
\* line 54: k = max(3, min(51, int(dilation_px) * 2 + 1) | 1)
dilation_kernel(dilation_px) == Max(3, BitOr1(Min(51, dilation_px * 2 + 1)))

expand_mask_to_include_shadow(image, mask, dilation_px, shadow_value_threshold) ==
    LET mask_float == ndarray([r \in 1..Rows(mask) |-> [c \in 1..Cols(mask) |->
                          Clip(mask[r][c], 0, 10)]])
        binary == ndarray([r \in 1..Rows(mask) |-> [c \in 1..Cols(mask) |->
                          IF mask_float[r][c] >= 5 THEN 255 ELSE 0]])
        k == dilation_kernel(dilation_px)
        dilated == dilate(binary, k)
        ring(r, c) == Clip(dilated[r][c] - binary[r][c], 0, 255)
        gray(r, c) == RGB2GRAY(image[r][c])
        thresh == Max(1, Min(9, shadow_value_threshold))
        dark(r, c) == IF gray(r, c) * 10 <= 255 * thresh THEN 255 ELSE 0
        shadow_mask(r, c) == IF ring(r, c) > 0 /\ dark(r, c) > 0 THEN 10 ELSE 0
    IN  [r \in 1..Rows(mask) |-> [c \in 1..Cols(mask) |->
            Float32(Clip(mask_float[r][c] + shadow_mask(r, c), 0, 10), 10)]]

MaxRows == 2

GridWidths == {1, 2}

MaskTenths == {0, 3, 7, 10}

DarkPixel == <<20, 20, 20>>

LightPixel == <<230, 200, 90>>

\* an h x w picture: all dark, all light, or a checkerboard of the two
Picture(pattern, h, w) ==
    [r \in 1..h |-> [c \in 1..w |->
        IF pattern = "dark" \/ (pattern = "checker" /\ (r + c) % 2 = 0)
        THEN DarkPixel ELSE LightPixel]]

Pictures == {"dark", "light", "checker"}

\* (dilation_px, shadow_value_threshold in tenths, channels of the image)
ShadowParams == {<<0, 5, 3>>, <<2, 12, 4>>, <<20, 0, 3>>, <<30, 5, 3>>}

WithChannels(px, channels) == IF channels = 4 THEN Append(px, 255) ELSE px

InitShadow ==
    /\ \E h \in 1..MaxRows, w \in GridWidths, prm \in ShadowParams :
         \E mask \in [1..h -> [1..w -> MaskTenths]], pattern \in Pictures :
              shadow_args = [image |-> [r \in 1..h |-> [c \in 1..w |->
                                  WithChannels(Picture(pattern, h, w)[r][c], prm[3])]],
                             mask |-> mask,
                             dilation_px |-> prm[1],
                             shadow_value_threshold |-> prm[2]]
    /\ shadow_ret = Pending
    /\ ColorIdle /\ RecolorIdle /\ RefineIdle /\ RectIdle /\ PointsIdle /\ DetectIdle /\ SeedIdle /\ UiIdle
    /\ MatchIdle /\ ReplayIdle /\ PaintIdle

ExpandShadow ==
    /\ shadow_ret = Pending
    /\ shadow_ret' = Returned(expand_mask_to_include_shadow(
                        shadow_args.image, shadow_args.mask,
                        shadow_args.dilation_px, shadow_args.shadow_value_threshold))
    /\ UNCHANGED <<shadow_args, colorVars, recolorVars, refineVars, rectVars,
                   pointsVars, matchVars, replayVars, paintVars, detectVars, seedVars, uiVars>>

NextShadow == ExpandShadow

SpecShadow == InitShadow /\ [][NextShadow]_vars

ShadowDone == shadow_ret \notin {Pending, Idle}

\* C3: for every image, every mask with values in [0,1], every dilation_px
\* and every shadow_value_threshold, the returned mask is >= the input mask
\* at every pixel and within [0,1].
C3_NeverShrinks ==
    ShadowDone =>
        \A p \in Cells(shadow_args.mask) :
            LET out == shadow_ret.value[p[1]][p[2]]
                given == shadow_args.mask[p[1]][p[2]]
            IN  /\ out.num * 10 >= given * out.den
                /\ 0 <= out.num /\ out.num <= out.den

\* the input mask binarized at 0.5, on the 0/255 scale
BinaryAtHalf ==
    ndarray([r \in 1..Rows(shadow_args.mask) |-> [c \in 1..Cols(shadow_args.mask) |->
        IF shadow_args.mask[r][c] >= 5 THEN 255 ELSE 0]])

\* pixel p is inside the dilation of the binarized mask, not inside that mask
InRing(p) ==
    /\ dilate(BinaryAtHalf, dilation_kernel(shadow_args.dilation_px))[p[1]][p[2]] > 0
    /\ BinaryAtHalf[p[1]][p[2]] = 0

\* the luma of pixel p is at or below the threshold clamped to [0.1, 0.9]
IsDark(p) ==
    RGB2GRAY(shadow_args.image[p[1]][p[2]]) * 10
        <= 255 * Clip(shadow_args.shadow_value_threshold, 1, 9)

\* the kernel is odd and within 3..51; a dilation_px above 25 gives what 25 gives
KernelBounded ==
    /\ dilation_kernel(shadow_args.dilation_px) % 2 = 1
    /\ dilation_kernel(shadow_args.dilation_px) \in 3..51
    /\ shadow_args.dilation_px > 25 =>
           shadow_ret.value = expand_mask_to_include_shadow(shadow_args.image,
               shadow_args.mask, 25, shadow_args.shadow_value_threshold)

\* C25: the output is 1 at the dark pixels of the ring and equals the
\* (clipped) input at every other pixel; the dilation kernel is odd and
\* between 3 and 51, so a dilation_px above 25 expands no further than 25.
C25_OnlyDarkRing ==
    ShadowDone =>
        /\ KernelBounded
        /\ \A p \in Cells(shadow_args.mask) :
              LET out == shadow_ret.value[p[1]][p[2]]
                  given == Clip(shadow_args.mask[p[1]][p[2]], 0, 10)
              IN  IF InRing(p) /\ IsDark(p)
                  THEN out.num = out.den
                  ELSE out.num * 10 = given * out.den

\* what line 66 gives: outside the dark ring the output is the input cast
\* to float32
C25_OnlyDarkRingUpToCast ==
    ShadowDone =>
        /\ KernelBounded
        /\ \A p \in Cells(shadow_args.mask) :
              LET out == shadow_ret.value[p[1]][p[2]]
                  given == Clip(shadow_args.mask[p[1]][p[2]], 0, 10)
              IN  IF InRing(p) /\ IsDark(p)
                  THEN out.num = out.den
                  ELSE out = Float32(given, 10)

\* a dark ring pixel was added by a call with dilation_px above 25
C25_ShadowAdded ==
    /\ ShadowDone /\ shadow_args.dilation_px > 25
    /\ \E p \in Cells(shadow_args.mask) :
          InRing(p) /\ IsDark(p) /\ shadow_ret.value[p[1]][p[2]].num > 0

(***************************************************************************)
(* refine.py: refine_mask.  A mask is [dtype, ndim, data]: data is the     *)
(* h x w grid, in tenths for a float mask and in 0..255 for a uint8 one;   *)
(* ndim = 3 is the shape (h, w, 1).  feather_px and mask_threshold are in  *)
(* tenths.  The result is a grid of rationals [num, den].                  *)
(***************************************************************************)
\* line 16-17: mask.squeeze() of an (h, w, 1) array with h, w >= 2
Squeeze(mask) == mask.data

\* lines 18-21 with >= read as >
Binarize_Strict(mask, mask_threshold) ==
    LET data == Squeeze(mask)
    IN  ndarray([r \in 1..Rows(data) |-> [c \in 1..Cols(data) |->
            IF mask.dtype # "uint8"
            THEN (IF data[r][c] > mask_threshold THEN 255 ELSE 0)
            ELSE (IF data[r][c] > (255 * mask_threshold) \div 10 THEN 255 ELSE 0)]])

\* lines 18-21
Binarize(mask, mask_threshold) ==
    LET data == Squeeze(mask)
    IN  ndarray([r \in 1..Rows(data) |-> [c \in 1..Cols(data) |->
            IF mask.dtype # "uint8"
            THEN (IF data[r][c] >= mask_threshold THEN 255 ELSE 0)
            ELSE (IF data[r][c] >= (255 * mask_threshold) \div 10 THEN 255 ELSE 0)]])

\* cv2.morphologyEx(binary, cv2.MORPH_CLOSE, kernel)
MorphClose(g, k) == erode(dilate(g, k), k)

\* cv2.morphologyEx(binary, cv2.MORPH_OPEN, kernel)
MorphOpen(g, k) == dilate(erode(g, k), k)

\* binary.astype(np.float32) with the division by 255.0 left out
Unit_NoScale(binary) ==
    ndarray([r \in 1..Rows(binary) |-> [c \in 1..Cols(binary) |-> binary[r][c]]])

\* binary.astype(np.float32) / 255.0
Unit(binary) ==
    ndarray([r \in 1..Rows(binary) |-> [c \in 1..Cols(binary) |-> binary[r][c] \div 255]])

\* cv2.getGaussianKernel(ksize, sigma) in thousandths, for the sizes a grid of
\* at most GridWidths columns allows: exp(-x^2 / (2 sigma^2)), normalised
GaussianKernel(ksize, sigma) ==
    IF ksize = 1 THEN <<1000>>
    ELSE IF sigma = 5 THEN <<107, 786, 107>>
    ELSE IF sigma = 10 THEN <<274, 452, 274>>
    ELSE <<319, 362, 319>>

\* cv2.BORDER_REFLECT_101 (the default border): index i of 1..n
Reflect101(i, n) == IF n = 1 THEN 1 ELSE IF i < 1 THEN 2 - i ELSE IF i > n THEN 2 * n - i ELSE i

\* cv2.GaussianBlur(src, (ksize, ksize), sigma): rows then columns; the
\* result is in millionths
GaussianBlur(src, ksize, sigma) ==
    LET kern == GaussianKernel(ksize, sigma)
        half == ksize \div 2
        h == Rows(src)
        w == Cols(src)
        RECURSIVE SumRow(_, _, _)
        SumRow(r, c, i) ==
            IF i > ksize THEN 0
            ELSE kern[i] * src[r][Reflect101(c + i - 1 - half, w)] + SumRow(r, c, i + 1)
        horiz == ndarray([r \in 1..h |-> [c \in 1..w |-> SumRow(r, c, 1)]])
        RECURSIVE SumCol(_, _, _)
        SumCol(r, c, i) ==
            IF i > ksize THEN 0
            ELSE kern[i] * horiz[Reflect101(r + i - 1 - half, h)][c] + SumCol(r, c, i + 1)
    IN  ndarray([r \in 1..h |-> [c \in 1..w |-> SumCol(r, c, 1)]])

\* lines 30-32: sigma = max(0.5, feather_px), ksize = int(6 * sigma + 1) | 1,
\* capped by min(h, w) | 1; feather_px in tenths
ksize(feather_px, h, w) ==
    Min(BitOr1((6 * Max(5, feather_px) + 10) \div 10), BitOr1(Min(h, w)))

refine_mask(mask, morph_kernel, feather_px, mask_threshold) ==
    LET binary0 == Binarize(mask, mask_threshold)
        k0 == Max(1, IF morph_kernel % 2 = 1 THEN morph_kernel ELSE morph_kernel + 1)
        k == Min(9, k0)
        binary == MorphOpen(MorphClose(binary0, k), k)
        sigma == Max(5, feather_px)
        blurred == GaussianBlur(Unit(binary), ksize(feather_px, Rows(binary), Cols(binary)),
                                sigma)
    IN  IF feather_px > 0
        THEN [r \in 1..Rows(binary) |-> [c \in 1..Cols(binary) |->
                 [num |-> Clip(blurred[r][c], 0, 1000000), den |-> 1000000]]]
        ELSE [r \in 1..Rows(binary) |-> [c \in 1..Cols(binary) |->
                 [num |-> Unit(binary)[r][c], den |-> 1]]]

FloatTenths == {0, 5, 10}

Uint8Values == {0, 127, 255}

MorphKernels == {1, 2, 11}

FeatherTenths == {0, 3, 20}

ThresholdTenths == {0, 5, 10}

InitRefine ==
    /\ \E h \in 1..MaxRows, w \in GridWidths, dtype \in {"float64", "uint8"},
          ndim \in {2, 3} :
         /\ ndim = 3 => (h >= 2 /\ w >= 2)
         /\ \E data \in [1..h -> [1..w -> IF dtype = "uint8" THEN Uint8Values
                                          ELSE FloatTenths]],
               morph_kernel \in MorphKernels, feather_px \in FeatherTenths,
               mask_threshold \in ThresholdTenths :
              refine_args = [mask |-> [dtype |-> dtype, ndim |-> ndim, data |-> data],
                             morph_kernel |-> morph_kernel,
                             feather_px |-> feather_px,
                             mask_threshold |-> mask_threshold]
    /\ refine_ret = Pending
    /\ ColorIdle /\ RecolorIdle /\ ShadowIdle /\ RectIdle /\ PointsIdle /\ DetectIdle /\ SeedIdle /\ UiIdle
    /\ MatchIdle /\ ReplayIdle /\ PaintIdle

RefineMask ==
    /\ refine_ret = Pending
    /\ refine_ret' = Returned(refine_mask(refine_args.mask, refine_args.morph_kernel,
                                          refine_args.feather_px,
                                          refine_args.mask_threshold))
    /\ UNCHANGED <<refine_args, colorVars, recolorVars, shadowVars, rectVars,
                   pointsVars, matchVars, replayVars, paintVars, detectVars, seedVars, uiVars>>

NextRefine == RefineMask

SpecRefine == InitRefine /\ [][NextRefine]_vars

RefineDone == refine_ret \notin {Pending, Idle}

UsedKsize ==
    ksize(refine_args.feather_px, Rows(refine_args.mask.data), Cols(refine_args.mask.data))

SmallerSide == Min(Rows(refine_args.mask.data), Cols(refine_args.mask.data))

\* C23 as stated: with feather_px > 0 the Gaussian kernel size is odd and
\* never exceeds the smaller of the mask's height and width.
C23_KsizeWithinMask ==
    (RefineDone /\ refine_args.feather_px > 0) =>
        /\ UsedKsize % 2 = 1
        /\ UsedKsize <= SmallerSide

\* C23 amended: with feather_px > 0 the kernel size is odd, at least 1, and
\* never exceeds the smaller side rounded up to an odd number: the smaller
\* side itself when that is odd, one more when it is even.
C23_KsizeWithinNextOdd ==
    (RefineDone /\ refine_args.feather_px > 0) =>
        /\ UsedKsize % 2 = 1 /\ UsedKsize >= 1
        /\ SmallerSide % 2 = 1 => UsedKsize <= SmallerSide
        /\ SmallerSide % 2 = 0 => UsedKsize <= SmallerSide + 1

\* a feathered mask whose smaller side is even: the kernel is one larger
C23_EvenSideExceeded ==
    /\ RefineDone /\ refine_args.feather_px > 0
    /\ SmallerSide % 2 = 0 /\ UsedKsize = SmallerSide + 1

\* the float mask m / 255 of an 8-bit mask m, and the threshold, both in 2550ths
AsFloatMask(mask) ==
    [dtype |-> "float64", ndim |-> mask.ndim,
     data |-> ndarray([r \in 1..Rows(mask.data) |-> [c \in 1..Cols(mask.data) |->
                  10 * mask.data[r][c]]])]

\* C24: an 8-bit mask is binarized by the comparison of a soft mask: a pixel
\* is foreground exactly when m / 255 >= t, so refine_mask(m, ...) equals
\* refine_mask(m / 255 as float, ...) with the same other arguments.
C24_SameAsFloat ==
    (RefineDone /\ refine_args.mask.dtype = "uint8") =>
        refine_ret.value =
            refine_mask(AsFloatMask(refine_args.mask), refine_args.morph_kernel,
                        refine_args.feather_px, 255 * refine_args.mask_threshold)

\* what line 21 gives: the two agree unless a pixel lies in the gap
\* int(255 t) <= m < 255 t left by the truncation
C24_SameOutsideGap ==
    (RefineDone /\ refine_args.mask.dtype = "uint8"
       /\ \A p \in Cells(refine_args.mask.data) :
              LET m == refine_args.mask.data[p[1]][p[2]]
              IN  ~(m >= (255 * refine_args.mask_threshold) \div 10
                    /\ 10 * m < 255 * refine_args.mask_threshold)) =>
        refine_ret.value =
            refine_mask(AsFloatMask(refine_args.mask), refine_args.morph_kernel,
                        refine_args.feather_px, 255 * refine_args.mask_threshold)

\* the mask holds only the values 0 and 1 (of its own scale)
IsBinaryMask(mask) ==
    \A p \in Cells(mask.data) :
        mask.data[p[1]][p[2]] \in (IF mask.dtype = "uint8" THEN {0, 1} ELSE {0, 10})

\* the returned grid equals the mask value for value
SameAsMask(ret, mask) ==
    /\ Rows(ret) = Rows(mask.data) /\ Cols(ret) = Cols(mask.data)
    /\ \A p \in Cells(mask.data) :
          LET out == ret[p[1]][p[2]]
              unit == IF mask.dtype = "uint8" THEN 1 ELSE 10
          IN  out.num * unit = mask.data[p[1]][p[2]] * out.den

RECURSIVE GCD(_, _)
GCD(a, b) == IF b = 0 THEN a ELSE GCD(b, a % b)

Frac(n, d) == LET g == GCD(n, d) IN [num |-> n \div g, den |-> d \div g]

Raise(exc) == [kind |-> "raise", exc |-> exc]

\* cv2.cvtColor(bgr, cv2.COLOR_BGR2HSV) of one 8-bit pixel (12-bit fixed
\* point, hue in 0..179)
BGR2HSV(r, g, b) ==
    LET v == Max(r, Max(g, b))
        vmin == Min(r, Min(g, b))
        diff == v - vmin
        sdiv == IF v = 0 THEN 0 ELSE PyRound(1044480, v)
        hdiv == IF diff = 0 THEN 0 ELSE PyRound(122880, diff)
        h0 == IF v = r THEN g - b
              ELSE IF v = g THEN b - r + 2 * diff
              ELSE r - g + 4 * diff
        h1 == (h0 * hdiv + 2048) \div 4096
    IN  [h |-> IF h1 < 0 THEN h1 + 180 ELSE h1,
         s |-> (diff * sdiv + 2048) \div 4096,
         v |-> v]

\* cv2.cvtColor(hsv, cv2.COLOR_HSV2BGR) of one 8-bit pixel, as <<r, g, b>>
HSV2BGR(h, s, v) ==
    IF s = 0 THEN <<v, v, v>>
    ELSE LET sector == (h \div 30) % 6
             f == h % 30
             t0 == v
             t1 == PyRound(v * (255 - s), 255)
             t2 == PyRound(v * (7650 - s * f), 7650)
             t3 == PyRound(v * (7650 - s * (30 - f)), 7650)
         IN  CASE sector = 0 -> <<t0, t3, t1>>
               [] sector = 1 -> <<t2, t0, t1>>
               [] sector = 2 -> <<t1, t0, t3>>
               [] sector = 3 -> <<t1, t2, t0>>
               [] sector = 4 -> <<t3, t1, t0>>
               [] OTHER -> <<t0, t1, t2>>

\* np.array([[[b, g, r]]], dtype=np.uint8) of parsed components: a component
\* outside 0..255 wraps modulo 256 or raises OverflowError, as the installed
\* NumPy decides
Uint8Pixel(rgb, uint8_cast) ==
    IF \A x \in {rgb.r, rgb.g, rgb.b} : 0 <= x /\ x <= 255 THEN rgb
    ELSE IF uint8_cast = "wrap" THEN Rgb(rgb.r % 256, rgb.g % 256, rgb.b % 256)
    ELSE Raise("OverflowError")

\* lines 95-99: every pixel as <<r, g, b, a>>
ToRGBA(image) ==
    ndarray([r \in 1..Rows(image.data) |-> [c \in 1..Cols(image.data) |->
        LET px == image.data[r][c]
        IN  IF image.kind = "gray" THEN <<px, px, px, 255>>
            ELSE IF image.kind = "rgb" THEN Append(px, 255)
            ELSE px]])

\* line 102 with the alpha channel taken to be opaque
alpha_orig_Opaque(px) == 255

\* line 102: alpha_orig = image[:, :, 3].copy()
alpha_orig(px) == px[4]

\* cv2.resize(mask, (w, h), interpolation=cv2.INTER_LINEAR) of a 1 x 1 mask
Resize(data, w, h) == ndarray([r \in 1..h |-> [c \in 1..w |-> data[1][1]]])

\* lines 110-123: the mask as an h x w array, or the exception raised.  A
\* (1, 1, 1) mask squeezes to a 0-d array, whose shape[0] does not exist; an
\* empty mask reaches cv2.resize, which rejects an empty source.
MaskArray(mask, h, w) ==
    IF mask.ndim = 3 /\ h = 1 /\ w = 1 THEN Raise("IndexError")
    ELSE IF mask.ndim = 2 /\ Len(mask.data) = 0 THEN Raise("cv2.error")
    ELSE IF mask.ndim = 1
    THEN IF Len(mask.data[1]) = h * w
         THEN Returned(ndarray([r \in 1..h |-> [c \in 1..w |->
                                   mask.data[1][(r - 1) * w + c]]]))
         ELSE Returned(ndarray([r \in 1..h |-> [c \in 1..w |-> 0]]))
    ELSE IF Rows(mask.data) # h \/ Cols(mask.data) # w
    THEN Returned(Resize(mask.data, w, h))
    ELSE Returned(mask.data)

\* lines 124-126 on the array of lines 110-123
NormalizedMask(arr) ==
    LET scaled == 2 * SetMax({arr[p[1]][p[2]] : p \in Cells(arr)}) > 765
    IN  ndarray([r \in 1..Rows(arr) |-> [c \in 1..Cols(arr) |->
            IF scaled THEN Frac(Clip(arr[r][c], 0, 65025), 65025)
            ELSE Frac(Clip(arr[r][c], 0, 255), 255)]])

\* lines 63-70 with a hard edge at full_zone instead of the falloff
HueOk_HardEdge(H, h0, hue_tolerance_degrees) ==
    LET tol == Max(1, Min(90, hue_tolerance_degrees))
        d == Abs(H - h0)
    IN  IF 5 * Min(d, 180 - d) <= 6 * tol THEN Frac(1, 1) ELSE Frac(0, 1)

\* lines 63-73: hue_ok for a pixel of hue H
HueOk(H, h0, hue_tolerance_degrees) ==
    LET tol == Max(1, Min(90, hue_tolerance_degrees))
        d == Abs(H - h0)
        hue_diff == Min(d, 180 - d)
    IN  IF 5 * hue_diff <= 6 * tol THEN Frac(1, 1)
        ELSE Frac(Clip(9 * tol - 5 * hue_diff, 0, 3 * tol), 3 * tol)

\* lines 55-77 for one pixel: the colour-match weight color_mask
color_mask(px, object_mask, source_rgb, hue_tolerance_degrees) ==
    LET hsv == BGR2HSV(px[1], px[2], px[3])
        h0 == BGR2HSV(source_rgb.r, source_rgb.g, source_rgb.b).h
        hue_ok == HueOk(hsv.h, h0, hue_tolerance_degrees)
        in_shadow == IF hsv.v < 35 THEN object_mask ELSE Frac(0, 1)
        total == Frac(hue_ok.num * in_shadow.den + in_shadow.num * hue_ok.den,
                      hue_ok.den * in_shadow.den)
    IN  IF total.num > total.den THEN Frac(1, 1) ELSE total

\* lines 55-78 for one pixel: the object mask weighted by the colour match,
\* before the cast of line 78
build_color_match_mask(px, object_mask, source_rgb, hue_tolerance_degrees) ==
    LET weight == color_mask(px, object_mask, source_rgb, hue_tolerance_degrees)
    IN  Frac(object_mask.num * weight.num, object_mask.den * weight.den)

\* lines 176-178 with the painted pixel taken everywhere
Composite_PaintedOnly(x, painted, m) == painted

\* lines 176-178 for one channel: (x (1 - m) + painted m), truncated to a byte
Composite(x, painted, m) ==
    Clip((x * (m.den - m.num) + painted * m.num) \div m.den, 0, 255)

\* lines 138-178 for one pixel <<r, g, b, a>> and its mask weight
\* lines 138-139 without the sharpening: the mask is used as it is
mask_full_Soft(mask_value) == mask_value

\* lines 138-139: where(mask >= 0.5, 1.0, mask * 2.0), clipped
mask_full(mask_value) ==
    IF 2 * mask_value.num >= mask_value.den THEN Frac(1, 1)
    ELSE Frac(2 * mask_value.num, mask_value.den)

\* lines 156-158 with the wrap dropped: the plain difference
hue_diff_NoWrap(H_orig, H_t) == H_t - H_orig

\* lines 156-158: the hue delta the short way round (hues are whole numbers)
hue_diff(H_orig, H_t) ==
    LET d0 == H_t - H_orig
        d1 == IF d0 >= 90 THEN d0 - 180 ELSE d0
    IN  IF d1 <= -90 THEN d1 + 180 ELSE d1

\* lines 160-161: (H_orig + hue_diff * mask + 180) % 180, clipped to [0, 179]
new_H(H_orig, delta, m) ==
    LET x == Frac(((H_orig + 180) * m.den + delta * m.num) % (180 * m.den), m.den)
    IN  IF x.num > 179 * x.den THEN Frac(179, 1) ELSE x

\* line 162, then the clip and the uint8 cast of line 172; strength in tenths
new_S(S_orig, S_t, strength, m) ==
    Clip((S_orig * 10 * m.den + (S_t - S_orig) * strength * m.num) \div (10 * m.den),
         0, 255)

\* lines 164-170 with the lift applied whatever the mask and the brightness
new_V_LiftAll(V_orig, m) == Clip(Max(V_orig, (28 * m.num) \div m.den), 0, 255)

\* lines 164-170, then the clip and the uint8 cast of line 172
new_V(V_orig, m) ==
    IF 10 * m.num > m.den /\ V_orig < 18
    THEN Clip(Max(V_orig, (28 * m.num) \div m.den), 0, 255)
    ELSE V_orig

\* lines 155-172 with the hue shift scaled by the strength as well
new_hsv_HueByStrength(px, m, target_rgb, strength) ==
    LET hsv == BGR2HSV(px[1], px[2], px[3])
        target_hsv == BGR2HSV(target_rgb.r, target_rgb.g, target_rgb.b)
        hue == new_H(hsv.h, hue_diff(hsv.h, target_hsv.h),
                     Frac(m.num * strength, m.den * 10))
    IN  [h |-> hue.num \div hue.den,
         s |-> new_S(hsv.s, target_hsv.s, strength, m),
         v |-> new_V(hsv.v, m)]

\* lines 155-172: new_hsv for effective mask m
new_hsv(px, m, target_rgb, strength) ==
    LET hsv == BGR2HSV(px[1], px[2], px[3])
        target_hsv == BGR2HSV(target_rgb.r, target_rgb.g, target_rgb.b)
        hue == new_H(hsv.h, hue_diff(hsv.h, target_hsv.h), m)
    IN  [h |-> hue.num \div hue.den,
         s |-> new_S(hsv.s, target_hsv.s, strength, m),
         v |-> new_V(hsv.v, m)]

\* lines 155-174: the painted pixel for effective mask m
PaintedPixel(px, m, target_rgb, strength) ==
    LET painted == new_hsv(px, m, target_rgb, strength)
    IN  HSV2BGR(painted.h, painted.s, painted.v)

\* lines 137-181 for one pixel
RecolorPixel(px, mask_value, target_rgb, strength) ==
    LET m == mask_full(mask_value)
        painted == PaintedPixel(px, m, target_rgb, strength)
    IN  <<Composite(px[1], painted[1], m), Composite(px[2], painted[2], m),
          Composite(px[3], painted[3], m), alpha_orig(px)>>

recolor_masked_region(image, mask, target_hex, strength, source_color_hex, hue_tolerance_degrees, uint8_cast) ==
    LET rgba == ToRGBA(image)
        h == Rows(rgba)
        w == Cols(rgba)
        parsed_target == parse_color_to_rgb(target_hex)
        arr == MaskArray(mask, h, w)
        mask_float == NormalizedMask(arr.value)
        use_source == source_color_hex # None /\ Len(source_color_hex.text) > 0
        parsed_source == parse_color_to_rgb(source_color_hex)
        source_rgb == Uint8Pixel(parsed_source, uint8_cast)
        target_rgb == Uint8Pixel(parsed_target, uint8_cast)
        weight(r, c) ==
            IF use_source
            THEN build_color_match_mask(rgba[r][c], mask_float[r][c], source_rgb,
                                        hue_tolerance_degrees)
            ELSE mask_float[r][c]
    IN  IF parsed_target.kind = "raise" THEN parsed_target
        ELSE IF arr.kind = "raise" THEN arr
        ELSE IF use_source /\ parsed_source.kind = "raise" THEN parsed_source
        ELSE IF use_source /\ source_rgb.kind = "raise" THEN source_rgb
        ELSE IF target_rgb.kind = "raise" THEN target_rgb
        ELSE Returned(ndarray([r \in 1..h |-> [c \in 1..w |->
                 RecolorPixel(rgba[r][c], weight(r, c), target_rgb, strength)]]))

RecolorWidths == {1}

GrayPalette == {10, 200}

RgbPalette == {<<255, 235, 59>>, <<10, 10, 10>>, <<200, 101, 50>>}

RgbaPalette == {<<255, 235, 59, 128>>, <<10, 10, 10, 0>>, <<200, 101, 50, 255>>}

FloatMaskValues == {0, 51, 255}

ByteMaskValues == {0, 25500, 65025}

Chars(str) == [str |-> TRUE, text |-> str]

\* (target_hex, strength, source_color_hex, hue_tolerance_degrees)
RecolorCalls ==
    {<<Chars(<<"#", "E", "5", "3", "9", "3", "5">>), 8, None, 25>>,
     <<Chars(<<"2", "1", "9", "6", "F", "3">>), 10,
       Chars(<<"#", "F", "F", "E", "B", "3", "B">>), 28>>,
     <<Chars(<<"r", "g", "b", "(", "1", ".", "2", ".", "3", ",", "0", ",", "0", ")">>),
       8, None, 25>>,
     <<Chars(<<"-", "1", "-", "1", "8", "0">>), 5, Chars(<<>>), 25>>,
     <<Chars(<<"#", "E", "5", "3", "9", "3", "5">>), 0,
       Chars(<<"#", "F", "F", "E", "B", "3", "B">>), 200>>}

Images(h, w) ==
    {[kind |-> "gray", data |-> d] : d \in [1..h -> [1..w -> GrayPalette]]}
    \cup {[kind |-> "rgb", data |-> d] : d \in [1..h -> [1..w -> RgbPalette]]}
    \cup {[kind |-> "rgba", data |-> d] : d \in [1..h -> [1..w -> RgbaPalette]]}

Masks(h, w) ==
    {[ndim |-> n, data |-> d] :
        n \in {2, 3}, d \in [1..h -> [1..w -> FloatMaskValues]]
                            \cup [1..h -> [1..w -> ByteMaskValues]]}
    \cup {[ndim |-> 1, data |-> <<d>>] :
            d \in [1..(h * w) -> FloatMaskValues] \cup [1..(h * w) -> ByteMaskValues]}
    \cup {[ndim |-> 1, data |-> <<[i \in 1..(h * w + 1) |-> 255]>>]}
    \cup {[ndim |-> 2, data |-> <<<<v>>>>] : v \in FloatMaskValues}
    \cup {[ndim |-> 2, data |-> <<>>]}

InitRecolor ==
    /\ \E h \in 1..MaxRows, w \in RecolorWidths :
         \E image \in Images(h, w), mask \in Masks(h, w), call \in RecolorCalls :
            recolor_args = [image |-> image, mask |-> mask,
                            target_hex |-> call[1], strength |-> call[2],
                            source_color_hex |-> call[3],
                            hue_tolerance_degrees |-> call[4]]
    /\ recolor_ret = Pending
    /\ ColorIdle /\ RefineIdle /\ ShadowIdle /\ RectIdle /\ PointsIdle /\ DetectIdle /\ SeedIdle /\ UiIdle
    /\ MatchIdle /\ ReplayIdle /\ PaintIdle

RecolorMaskedRegion ==
    /\ recolor_ret = Pending
    /\ \E uint8_cast \in {"wrap", "raise"} :
          recolor_ret' = recolor_masked_region(
                             recolor_args.image, recolor_args.mask,
                             recolor_args.target_hex, recolor_args.strength,
                             recolor_args.source_color_hex,
                             recolor_args.hue_tolerance_degrees, uint8_cast)
    /\ UNCHANGED <<recolor_args, colorVars, refineVars, shadowVars, rectVars,
                   pointsVars, matchVars, replayVars, paintVars, detectVars, seedVars, uiVars>>

NextRecolor == RecolorMaskedRegion

SpecRecolor == InitRecolor /\ [][NextRecolor]_vars

RecolorReturned == recolor_ret.kind = "return"

\* the image and the normalised mask of the finished call
InputRGBA == ToRGBA(recolor_args.image)

InputMask ==
    NormalizedMask(MaskArray(recolor_args.mask, Rows(InputRGBA), Cols(InputRGBA)).value)

SameRGB(p, q) == p[1] = q[1] /\ p[2] = q[2] /\ p[3] = q[3]

\* C1: for every image, mask, target colour, strength, optional source colour
\* and hue tolerance, at each pixel where the normalised mask value is 0 the
\* RGB channels of recolor_masked_region's output equal the input's exactly.
C1_OutsideMaskUntouched ==
    RecolorReturned =>
        \A p \in Cells(InputRGBA) :
            InputMask[p[1]][p[2]].num = 0 =>
                SameRGB(recolor_ret.value[p[1]][p[2]], InputRGBA[p[1]][p[2]])

\* one pixel of the returned image lies outside the mask and another one,
\* inside it, changed colour
C1_PaintedBesideUntouched ==
    /\ RecolorReturned
    /\ \E p, q \in Cells(InputRGBA) :
          /\ InputMask[p[1]][p[2]].num = 0
          /\ InputMask[q[1]][q[2]].num > 0
          /\ InputRGBA[p[1]][p[2]] = InputRGBA[q[1]][q[2]]
          /\ ~SameRGB(recolor_ret.value[q[1]][q[2]], InputRGBA[q[1]][q[2]])

\* C2: for every 4-channel input the alpha channel of the output equals the
\* input alpha at every pixel, whatever the mask, strength, target or source
\* colour; for an input without alpha channel the output alpha is 255.
C2_AlphaPreserved ==
    RecolorReturned =>
        \A p \in Cells(InputRGBA) :
            recolor_ret.value[p[1]][p[2]][4] =
                (IF recolor_args.image.kind = "rgba"
                 THEN recolor_args.image.data[p[1]][p[2]][4] ELSE 255)

\* a translucent pixel inside the mask changed colour and kept its alpha
C2_TranslucentRepainted ==
    /\ RecolorReturned
    /\ recolor_args.image.kind = "rgba"
    /\ \E p \in Cells(InputRGBA) :
          /\ InputRGBA[p[1]][p[2]][4] = 128
          /\ InputMask[p[1]][p[2]].num > 0
          /\ ~SameRGB(recolor_ret.value[p[1]][p[2]], InputRGBA[p[1]][p[2]])
          /\ recolor_ret.value[p[1]][p[2]][4] = 128

(***************************************************************************)
(* segment.py: segment_from_points, _sam2_from_points;                     *)
(* sam2_wrapper.py: _get_sam2_predictor, sam2_predict_from_points.         *)
(* Gradio runs handlers on worker threads, so calls may overlap: each      *)
(* caller advances one statement group at a time.  sam2_predictor is the   *)
(* module global (0 = None, p = the predictor object caller p built).      *)
(* Whether the wrapper imports, the checkpoint exists, the model loads     *)
(* and the inference succeeds is the environment's choice.                 *)
(***************************************************************************)
MaxCallers == 2

Callers == 1..MaxCallers

IdleCaller ==
    [pc |-> "idle", use_sam |-> FALSE, predictor |-> 0, sam_mask |-> "None",
     mode |-> "None", failure |-> "none", grabcut_ran |-> FALSE, loaded |-> FALSE]

\* _sam2_from_points without its try/except: the exception reaches the caller
AfterSamException_Uncaught(c, what) == [c EXCEPT !.pc = "raised", !.failure = what]

\* segment.py lines 52-53: except Exception: return None; then line 69
AfterSamException(c, what) == [c EXCEPT !.pc = "grabcut", !.failure = what]

\* sam2_wrapper.py lines 19-20, 29-30, 51-52: return None; then segment.py line 69
AfterSamNone(c, what) == [c EXCEPT !.pc = "grabcut", !.failure = what]

notPointsVars == <<colorVars, recolorVars, refineVars, shadowVars, rectVars, matchVars,
                    replayVars, paintVars, detectVars, seedVars, uiVars>>

\* segment.py lines 65-66
SegmentFromPoints(p) ==
    /\ callers[p].pc = "idle"
    /\ \E use_sam \in BOOLEAN :
          callers' = [callers EXCEPT ![p] =
                        [IdleCaller EXCEPT !.use_sam = use_sam,
                                           !.loaded = callers[p].loaded,
                                           !.pc = IF use_sam THEN "import" ELSE "grabcut"]]
    /\ UNCHANGED <<sam2_predictor, notPointsVars>>

\* segment.py line 50: from app.ml.sam2_wrapper import sam2_predict_from_points
ImportWrapper(p) ==
    /\ callers[p].pc = "import"
    /\ \E ok \in BOOLEAN :
          callers' = [callers EXCEPT ![p] =
                        IF ok THEN [@ EXCEPT !.pc = "get_predictor"]
                        ELSE AfterSamException(@, "import")]
    /\ UNCHANGED <<sam2_predictor, notPointsVars>>

\* sam2_wrapper.py lines 13-15: if _sam2_predictor is not None: return it
GetPredictor(p) ==
    /\ callers[p].pc = "get_predictor"
    /\ callers' = [callers EXCEPT ![p] =
                      IF sam2_predictor # 0
                      THEN [@ EXCEPT !.predictor = sam2_predictor, !.pc = "infer"]
                      ELSE [@ EXCEPT !.pc = "checkpoint"]]
    /\ UNCHANGED <<sam2_predictor, notPointsVars>>

\* sam2_wrapper.py lines 16-20: get_model_cache_dir() (mkdir may raise, outside
\* any try of the wrapper), then the checkpoint test
CheckCheckpoint(p) ==
    /\ callers[p].pc = "checkpoint"
    /\ \E found \in {"exists", "missing", "mkdir raises"} :
          callers' = [callers EXCEPT ![p] =
                        IF found = "exists" THEN [@ EXCEPT !.pc = "load"]
                        ELSE IF found = "missing" THEN AfterSamNone(@, "checkpoint")
                        ELSE AfterSamException(@, "cache dir")]
    /\ UNCHANGED <<sam2_predictor, notPointsVars>>

\* sam2_wrapper.py lines 21-30: build the predictor and store it in the global
LoadModel(p) ==
    /\ callers[p].pc = "load"
    /\ \E ok \in BOOLEAN :
          IF ok
          THEN /\ sam2_predictor' = p
               /\ callers' = [callers EXCEPT ![p] =
                                 [@ EXCEPT !.predictor = p, !.loaded = TRUE, !.pc = "infer"]]
          ELSE /\ sam2_predictor' = sam2_predictor
               /\ callers' = [callers EXCEPT ![p] = AfterSamNone(@, "load")]
    /\ UNCHANGED notPointsVars

\* sam2_wrapper.py lines 42-52, then segment.py lines 67-68
Infer(p) ==
    /\ callers[p].pc = "infer"
    /\ \E ok \in BOOLEAN :
          callers' = [callers EXCEPT ![p] =
                        IF ok THEN [@ EXCEPT !.sam_mask = "mask", !.mode = "sam2",
                                             !.pc = "done"]
                        ELSE AfterSamNone(@, "inference")]
    /\ UNCHANGED <<sam2_predictor, notPointsVars>>

\* segment.py line 69: return _grabcut_from_points(...), "grabcut"
GrabCutFromPoints(p) ==
    /\ callers[p].pc = "grabcut"
    /\ callers' = [callers EXCEPT ![p] =
                      [@ EXCEPT !.grabcut_ran = TRUE, !.mode = "grabcut", !.pc = "done"]]
    /\ UNCHANGED <<sam2_predictor, notPointsVars>>

\* the caller has its (mask, mode) and may call again
Return(p) ==
    /\ callers[p].pc = "done"
    /\ callers' = [callers EXCEPT ![p] = [@ EXCEPT !.pc = "idle"]]
    /\ UNCHANGED <<sam2_predictor, notPointsVars>>

InitPoints ==
    /\ sam2_predictor = 0
    /\ callers = [p \in Callers |-> IdleCaller]
    /\ ColorIdle /\ RecolorIdle /\ RefineIdle /\ ShadowIdle /\ RectIdle /\ DetectIdle /\ SeedIdle /\ UiIdle
    /\ MatchIdle /\ ReplayIdle /\ PaintIdle

NextPoints ==
    \E p \in Callers :
        \/ SegmentFromPoints(p)
        \/ ImportWrapper(p)
        \/ GetPredictor(p)
        \/ CheckCheckpoint(p)
        \/ LoadModel(p)
        \/ Infer(p)
        \/ GrabCutFromPoints(p)
        \/ Return(p)

SpecPoints == InitPoints /\ [][NextPoints]_vars

\* C10: segment_from_points reports 'sam2' only when use_sam is true and the
\* accelerator returned a mask; in every other case (use_sam false, import
\* failure, missing checkpoint, failed load, failed inference) no accelerator
\* exception reaches the caller, GrabCut runs and the mode is 'grabcut'.
C10_SamOnlyWhenMask ==
    \A p \in Callers :
        /\ callers[p].pc # "raised"
        /\ callers[p].pc = "done" =>
              /\ callers[p].mode = "sam2" =>
                    (callers[p].use_sam /\ callers[p].sam_mask = "mask"
                     /\ ~callers[p].grabcut_ran)
              /\ (~callers[p].use_sam \/ callers[p].failure # "none") =>
                    (callers[p].mode = "grabcut" /\ callers[p].grabcut_ran)
              /\ callers[p].mode \in {"sam2", "grabcut"}

\* a call with use_sam whose inference failed on a cached predictor has
\* returned through GrabCut
C10_FellBack ==
    \E p \in Callers :
        /\ callers[p].pc = "done" /\ callers[p].use_sam
        /\ callers[p].failure = "inference" /\ callers[p].mode = "grabcut"
        /\ callers[p].predictor # 0 /\ callers[p].predictor # p

\* C13: recolor_masked_region never fails because of the mask's dimensions:
\* whatever the shape of the mask (another size, empty, 1-D of any length,
\* extra axes) it returns an H x W x 4 image.
C13_AnyMaskShape ==
    /\ recolor_ret # Idle /\ recolor_ret.kind = "raise" =>
           recolor_ret.exc \notin {"IndexError", "cv2.error"}
    /\ RecolorReturned =>
           /\ Rows(recolor_ret.value) = Rows(InputRGBA)
           /\ Cols(recolor_ret.value) = Cols(InputRGBA)
           /\ \A p \in Cells(recolor_ret.value) :
                  /\ Len(recolor_ret.value[p[1]][p[2]]) = 4
                  /\ \A i \in 1..4 : recolor_ret.value[p[1]][p[2]][i] \in 0..255

\* the shapes the normalization of lines 110-123 does handle: a 2-D mask of
\* the image's or of another non-zero size, and a 1-D mask of any length
C13_HandledShapes ==
    (recolor_ret # Idle /\ recolor_ret.kind = "raise"
     /\ recolor_ret.exc \in {"IndexError", "cv2.error"}) =>
        \/ recolor_args.mask.ndim = 3
        \/ (recolor_args.mask.ndim = 2 /\ Len(recolor_args.mask.data) = 0)

\* C16: the predictor is initialized at most once per process: over any
\* interleaving of callers the model load completes successfully at most once,
\* and a call that runs the predictor after a successful load runs the cached
\* one.
C16_LoadedAtMostOnce ==
    /\ Cardinality({p \in Callers : callers[p].loaded}) <= 1
    /\ \A p \in Callers : callers[p].pc = "infer" => callers[p].predictor = sam2_predictor

\* what the check of lines 13-15 does give: once stored, the predictor is
\* never cleared, and a caller that finds it stored does not load
C16_StoredIsReused ==
    [][/\ sam2_predictor # 0 => sam2_predictor' # 0
       /\ \A p \in Callers :
             (sam2_predictor # 0 /\ callers[p].pc = "get_predictor") =>
                 callers'[p].pc \in {"get_predictor", "infer"}]_vars

(***************************************************************************)
(* recolor.py: recolor_masked_region called again and again in one         *)
(* process.  The module has no global and the function rebinds, never      *)
(* writes, its arguments (lines 95-126 build new arrays), so a call's      *)
(* result is a function of its arguments and of the NumPy build alone.     *)
(* Arguments are named by their index in ReplayArgs.                       *)
(***************************************************************************)
MaxCalls == 3

Translucent(rgb) == [kind |-> "rgba", data |-> <<<<rgb \o <<128>>>>>>]

FlatMask(v) == [ndim |-> 2, data |-> <<<<v>>>>]

ReplayArgs ==
    LET call(image, mask, c) ==
            [image |-> image, mask |-> mask, target_hex |-> c[1], strength |-> c[2],
             source_color_hex |-> c[3], hue_tolerance_degrees |-> c[4]]
        red == <<Chars(<<"#", "E", "5", "3", "9", "3", "5">>), 8, None, 25>>
        blue == <<Chars(<<"2", "1", "9", "6", "F", "3">>), 10,
                  Chars(<<"#", "F", "F", "E", "B", "3", "B">>), 28>>
        signed == <<Chars(<<"-", "1", "-", "1", "8", "0">>), 5, Chars(<<>>), 25>>
        dotted == <<Chars(<<"r", "g", "b", "(", "1", ".", "2", ".", "3", ",", "0", ",",
                            "0", ")">>), 8, None, 25>>
    IN  <<call(Translucent(<<255, 235, 59>>), FlatMask(255), red),
          call(Translucent(<<255, 235, 59>>), FlatMask(51), red),
          call(Translucent(<<255, 235, 59>>), FlatMask(255), blue),
          call(Translucent(<<200, 101, 50>>), FlatMask(255), red),
          call(Translucent(<<255, 235, 59>>), FlatMask(255), signed),
          call(Translucent(<<255, 235, 59>>), FlatMask(255), dotted)>>

\* a variant that keeps the previous call's mask array and uses it again
recolor_call_StaleMask(arg, log) ==
    LET a == ReplayArgs[arg]
        mask == IF Len(log.calls) = 0 THEN a.mask
                ELSE ReplayArgs[log.calls[Len(log.calls)].arg].mask
    IN  recolor_masked_region(a.image, mask, a.target_hex, a.strength,
                              a.source_color_hex, a.hue_tolerance_degrees, log.build)

\* lines 81-181: the result of one call made after the calls of log
recolor_call(arg, log) ==
    LET a == ReplayArgs[arg]
    IN  recolor_masked_region(a.image, a.mask, a.target_hex, a.strength,
                              a.source_color_hex, a.hue_tolerance_degrees, log.build)

InitReplay ==
    /\ \E build \in {"wrap", "raise"} : recolor_log = [build |-> build, calls |-> <<>>]
    /\ ColorIdle /\ RecolorIdle /\ RefineIdle /\ ShadowIdle /\ RectIdle /\ PointsIdle
    /\ MatchIdle /\ DetectIdle /\ SeedIdle /\ UiIdle /\ PaintIdle

RecolorAgain ==
    /\ Len(recolor_log.calls) < MaxCalls
    /\ \E arg \in DOMAIN ReplayArgs :
          recolor_log' = [recolor_log EXCEPT !.calls =
                             Append(@, [arg |-> arg, ret |-> recolor_call(arg, recolor_log)])]
    /\ UNCHANGED <<colorVars, recolorVars, refineVars, shadowVars, rectVars, pointsVars,
                   matchVars, paintVars, detectVars, seedVars, uiVars>>

NextReplay == RecolorAgain

SpecReplay == InitReplay /\ [][NextReplay]_vars

RECURSIVE Significand(_, _, _, _)
\* binary long division of q + r/d until the quotient has 24 bits
Significand(q, r, d, e) ==
    IF q >= 2^23 THEN [q |-> q, r |-> r, e |-> e]
    ELSE LET bit == IF 2 * r >= d THEN 1 ELSE 0
         IN  Significand(2 * q + bit, 2 * r - bit * d, d, e + 1)

\* line 78: .astype(np.float32), round to nearest, ties to even
astype_float32(x) ==
    IF x.num = 0 THEN [mant |-> 0, exp |-> 0]
    ELSE LET s == Significand(x.num \div x.den, x.num % x.den, x.den, 0)
             up == 2 * s.r > x.den \/ (2 * s.r = x.den /\ s.q % 2 = 1)
         IN  [mant |-> IF up THEN s.q + 1 ELSE s.q, exp |-> s.e]

RECURSIVE ScaledFloor(_, _, _, _, _)
\* floor((q + r/d) * 2^e), or some number above cap when the floor is
ScaledFloor(q, r, d, e, cap) ==
    IF e = 0 \/ q > cap THEN q
    ELSE LET bit == IF 2 * r >= d THEN 1 ELSE 0
         IN  ScaledFloor(2 * q + bit, 2 * r - bit * d, d, e - 1, cap)

\* f <= x for a float32 f and a rational x >= 0
Float32Leq(f, x) ==
    f.mant <= ScaledFloor(x.num \div x.den, x.num % x.den, x.den, f.exp, f.mant)

Ramp == {17 * k : k \in 0..15}

\* saturated pixels all round the hue circle, and dark ones (V < 35, and 35)
MatchPixels ==
    UNION {{<<255, x, 0>>, <<x, 255, 0>>, <<0, 255, x>>,
            <<0, x, 255>>, <<x, 0, 255>>, <<255, 0, x>>} : x \in Ramp}
    \cup {<<0, 0, 20>>, <<20, 0, 0>>, <<10, 10, 10>>, <<30, 34, 0>>, <<34, 34, 34>>,
          <<35, 0, 0>>}

MatchMasks == {Frac(0, 1), Frac(1, 10), Frac(3, 10), Frac(1, 2), Frac(7, 10), Frac(1, 1)}

\* "#FFEB3B", "#E53935", "#2196F3", "#FF0000" (hues 27, 1, 103, 0)
MatchSources == {Rgb(255, 235, 59), Rgb(229, 57, 53), Rgb(33, 150, 243), Rgb(255, 0, 0)}

\* the slider of ui.py line 251 gives 5..60; the function clamps to [1, 90]
MatchTolerances == {0, 5, 25, 28, 60, 90, 200}

InitMatch ==
    /\ match_args \in [px : MatchPixels, object_mask : MatchMasks,
                       source_rgb : MatchSources,
                       hue_tolerance_degrees : MatchTolerances]
    /\ match_ret = Pending
    /\ ColorIdle /\ RecolorIdle /\ RefineIdle /\ ShadowIdle /\ RectIdle /\ PointsIdle
    /\ DetectIdle /\ SeedIdle /\ UiIdle /\ ReplayIdle /\ PaintIdle

\* the call, with the intermediate arrays of lines 57-77 kept beside the result
BuildColorMatchMask ==
    /\ match_ret = Pending
    /\ LET a == match_args
           hsv == BGR2HSV(a.px[1], a.px[2], a.px[3])
           h0 == BGR2HSV(a.source_rgb.r, a.source_rgb.g, a.source_rgb.b).h
           d == Abs(hsv.h - h0)
           product == build_color_match_mask(a.px, a.object_mask, a.source_rgb,
                                             a.hue_tolerance_degrees)
       IN  match_ret' =
               [kind |-> "return", H |-> hsv.h, V |-> hsv.v, h0 |-> h0,
                hue_diff |-> Min(d, 180 - d),
                hue_ok |-> HueOk(hsv.h, h0, a.hue_tolerance_degrees),
                color_mask |-> color_mask(a.px, a.object_mask, a.source_rgb,
                                          a.hue_tolerance_degrees),
                product |-> product,
                value |-> astype_float32(product)]
    /\ UNCHANGED <<match_args, colorVars, recolorVars, refineVars, shadowVars, rectVars,
                   pointsVars, replayVars, paintVars, detectVars, seedVars, uiVars>>

NextMatch == BuildColorMatchMask

SpecMatch == InitMatch /\ [][NextMatch]_vars

MatchDone == match_ret # Idle /\ match_ret.kind = "return"

\* C12: the mask returned by _build_color_match_mask lies in [0,1] and is at
\* every pixel less than or equal to the object mask (so selective recolor
\* never touches a pixel whose object mask is 0).
C12_WithinObjectMask ==
    MatchDone =>
        /\ Float32Leq(match_ret.value, Frac(1, 1))
        /\ Float32Leq(match_ret.value, match_args.object_mask)

\* the consequence alone: object mask 0 gives 0, and the uncast product is
\* within the object mask
C12_ZeroStaysZero ==
    MatchDone =>
        /\ match_args.object_mask.num = 0 => match_ret.value.mant = 0
        /\ match_ret.product.num * match_args.object_mask.den
               <= match_args.object_mask.num * match_ret.product.den

\* tol of line 63
ClampedTolerance == Max(1, Min(90, match_args.hue_tolerance_degrees))

\* C15: the tolerance and the pixel hue are compared in degrees of the
\* 360-degree circle: a non-dark pixel more than 1.8 T degrees from the
\* reference hue has colour-match weight 0, one within 1.2 T degrees has
\* weight 1.  (A hue difference of hue_diff on the 0..179 scale is
\* 2 hue_diff degrees.)
C15_ToleranceInDegrees ==
    (MatchDone /\ match_ret.V >= 35) =>
        /\ 10 * (2 * match_ret.hue_diff) > 18 * ClampedTolerance =>
               match_ret.color_mask = Frac(0, 1)
        /\ 10 * (2 * match_ret.hue_diff) <= 12 * ClampedTolerance =>
               match_ret.color_mask = Frac(1, 1)

FracLeq(x, y) == x.num * y.den <= y.num * x.den

\* C17: with tol the tolerance clamped to [1,90] and d the circular hue
\* distance min(|H-h0|, 180-|H-h0|) on the 0..179 scale, the hue weight is 1
\* when d <= 1.2 tol, 0 when d >= 1.8 tol, falls linearly from 1 to 0 in
\* between (weight = (1.8 tol - d) / (0.6 tol)), and is non-increasing in d.
C17_HueWeight ==
    MatchDone =>
        LET tol == ClampedTolerance
            d == match_ret.hue_diff
            w == match_ret.hue_ok
            dist(H) == Min(Abs(H - match_ret.h0), 180 - Abs(H - match_ret.h0))
        IN  /\ tol \in 1..90 /\ d = dist(match_ret.H) /\ d \in 0..90
            /\ 10 * d <= 12 * tol => w = Frac(1, 1)
            /\ 10 * d >= 18 * tol => w = Frac(0, 1)
            /\ (10 * d > 12 * tol /\ 10 * d < 18 * tol) =>
                   w.num * 6 * tol = (18 * tol - 10 * d) * w.den
            /\ \A H \in 0..179 :
                   dist(H) >= d =>
                       FracLeq(HueOk(H, match_ret.h0, match_args.hue_tolerance_degrees), w)

\* a pixel inside the falloff zone: its weight is strictly between 0 and 1
C17_InFalloff ==
    /\ MatchDone
    /\ 0 < match_ret.hue_ok.num /\ match_ret.hue_ok.num < match_ret.hue_ok.den
    /\ match_args.hue_tolerance_degrees = 28

\* C18: a pixel with object-mask value m > 0 and brightness V below the
\* darkness threshold (35) is always included: its colour-match weight is 1
\* and the returned mask value is m, whatever its hue and the tolerance.
C18_DarkAlwaysIncluded ==
    (MatchDone /\ match_ret.V < 35 /\ match_args.object_mask.num > 0) =>
        /\ match_ret.color_mask = Frac(1, 1)
        /\ match_ret.product = match_args.object_mask

\* what lines 76-78 give a dark pixel: weight min(1, hue_ok + m), hence the
\* value m where the hue matches or m = 1, and m * m where the hue is off
C18_DarkWeightedByMask ==
    (MatchDone /\ match_ret.V < 35) =>
        LET m == match_args.object_mask
        IN  /\ match_ret.hue_ok = Frac(1, 1) => match_ret.product = m
            /\ match_ret.hue_ok = Frac(0, 1) =>
                   match_ret.product = Frac(m.num * m.num, m.den * m.den)

(***************************************************************************)
(* recolor.py: lines 137-178 of recolor_masked_region at one pixel, with   *)
(* the intermediate arrays kept beside the output.  mask_value is the      *)
(* normalized (and colour-restricted) mask of lines 110-135.               *)
(***************************************************************************)
PaintMasks ==
    {Frac(0, 1), Frac(1, 20), Frac(1, 10), Frac(1, 4), Frac(49, 100), Frac(1, 2),
     Frac(7, 10), Frac(1, 1)}

\* hues 1, 103, 27, 60, 90 and 150 on the 0..179 scale
PaintTargets ==
    {Rgb(229, 57, 53), Rgb(33, 150, 243), Rgb(255, 235, 59), Rgb(0, 255, 0),
     Rgb(0, 255, 255), Rgb(255, 0, 255)}

\* strength in tenths
PaintStrengths == {0, 8}

InitPaint ==
    /\ paint_args \in [px : MatchPixels, mask_value : PaintMasks,
                       target_rgb : PaintTargets, strength : PaintStrengths]
    /\ paint_ret = Pending
    /\ ColorIdle /\ RecolorIdle /\ RefineIdle /\ ShadowIdle /\ RectIdle /\ PointsIdle
    /\ MatchIdle /\ ReplayIdle /\ DetectIdle /\ SeedIdle /\ UiIdle

PaintPixel ==
    /\ paint_ret = Pending
    /\ LET a == paint_args
           H_orig == BGR2HSV(a.px[1], a.px[2], a.px[3]).h
           H_t == BGR2HSV(a.target_rgb.r, a.target_rgb.g, a.target_rgb.b).h
           m == mask_full(a.mask_value)
           delta == hue_diff(H_orig, H_t)
       IN  paint_ret' =
               [kind |-> "return", H_orig |-> H_orig, H_t |-> H_t, hue_diff |-> delta,
                mask_full |-> m, new_H |-> new_H(H_orig, delta, m),
                V_orig |-> BGR2HSV(a.px[1], a.px[2], a.px[3]).v,
                new_hsv |-> new_hsv(a.px, m, a.target_rgb, a.strength),
                painted |-> PaintedPixel(a.px, m, a.target_rgb, a.strength),
                out |-> RecolorPixel(a.px \o <<255>>, a.mask_value, a.target_rgb,
                                     a.strength)]
    /\ UNCHANGED <<paint_args, colorVars, recolorVars, refineVars, shadowVars, rectVars,
                   pointsVars, matchVars, replayVars, detectVars, seedVars, uiVars>>

NextPaint == PaintPixel

SpecPaint == InitPaint /\ [][NextPaint]_vars

PaintDone == paint_ret # Idle /\ paint_ret.kind = "return"

\* C19: the effective mask is 1 where the mask is >= 0.5 and twice the mask
\* where it is < 0.5; so a pixel with mask >= 0.5 is output as the fully
\* painted colour, with no contribution of the original RGB; and the
\* effective mask is non-decreasing in the mask value.
C19_EdgeSharpening ==
    PaintDone =>
        LET v == paint_args.mask_value
            m == paint_ret.mask_full
        IN  /\ 2 * v.num >= v.den => m = Frac(1, 1)
            /\ 2 * v.num < v.den => m = Frac(2 * v.num, v.den)
            /\ 2 * v.num >= v.den =>
                  /\ SameRGB(paint_ret.out, paint_ret.painted)
                  /\ paint_ret.painted =
                         PaintedPixel(paint_args.px, Frac(1, 1), paint_args.target_rgb,
                                      paint_args.strength)
            /\ \A u \in PaintMasks :
                  FracLeq(v, u) => FracLeq(m, mask_full(u))

\* a pixel with mask 0.7 whose painted colour differs from the original
C19_SolidInterior ==
    /\ PaintDone
    /\ paint_args.mask_value = Frac(7, 10)
    /\ ~SameRGB(paint_ret.out, paint_args.px)
    /\ SameRGB(paint_ret.out, paint_ret.painted)

\* C20: for hues H and Ht in 0..179 the hue delta is congruent to Ht - H
\* modulo 180 and at most 90 in magnitude; the new hue
\* (H + delta * mask + 180) mod 180 lies in [0,179]; and where the effective
\* mask is 1 the new hue is Ht.
C20_ShortestHuePath ==
    PaintDone =>
        LET ok(H, Ht) ==
                LET delta == hue_diff(H, Ht)
                    hue == new_H(H, delta, paint_ret.mask_full)
                IN  /\ (delta - (Ht - H)) % 180 = 0
                    /\ Abs(delta) <= 90
                    /\ 0 <= hue.num /\ hue.num <= 179 * hue.den
                    /\ new_H(H, delta, Frac(1, 1)) = Frac(Ht, 1)
        IN  /\ paint_ret.hue_diff = hue_diff(paint_ret.H_orig, paint_ret.H_t)
            /\ paint_ret.new_H = new_H(paint_ret.H_orig, paint_ret.hue_diff,
                                       paint_ret.mask_full)
            /\ paint_ret.mask_full = Frac(1, 1) => paint_ret.new_H = Frac(paint_ret.H_t, 1)
            /\ \A X \in 0..179 : ok(X, paint_ret.H_t) /\ ok(paint_ret.H_orig, X)

\* a fully masked pixel whose hue lies more than 90 from the target's, so the
\* delta wraps, and which comes out with the target hue
C20_WrappedToTarget ==
    /\ PaintDone
    /\ paint_ret.mask_full = Frac(1, 1)
    /\ Abs(paint_ret.H_t - paint_ret.H_orig) > 90
    /\ paint_ret.hue_diff # paint_ret.H_t - paint_ret.H_orig
    /\ paint_ret.new_H = Frac(paint_ret.H_t, 1)

\* C21: brightness is never blended toward the target.  Where the original V
\* is at least 18 or the effective mask is at most 0.1 the painted V is the
\* original V, whatever the target and the strength; elsewhere it is
\* max(V, 28 mask) (stored in 8 bits, hence its whole part); V is never lowered.
C21_ValuePreserved ==
    PaintDone =>
        LET V == paint_ret.V_orig
            m == paint_ret.mask_full
            out == paint_ret.new_hsv.v
        IN  /\ (V >= 18 \/ 10 * m.num <= m.den) => out = V
            /\ (V < 18 /\ 10 * m.num > m.den) =>
                  /\ out >= V /\ out * m.den >= 28 * m.num - (m.den - 1)
                  /\ out = V \/ out * m.den <= 28 * m.num
            /\ out >= V
            /\ \A target_rgb \in PaintTargets, strength \in PaintStrengths :
                  new_hsv(paint_args.px, m, target_rgb, strength).v = out

\* a cast-shadow pixel (V = 10) under a full mask has been lifted to 28, and
\* that is not the brightness of the target
C21_ShadowLifted ==
    /\ PaintDone
    /\ paint_ret.V_orig = 10 /\ paint_ret.mask_full = Frac(1, 1)
    /\ paint_ret.new_hsv.v = 28

\* C30: the painted hue and brightness do not depend on strength: calls that
\* differ only in strength give the same new hue and the same new V and differ
\* at most in saturation; with strength 0 a fully masked pixel still gets the
\* target's hue.
C30_HueIndependentOfStrength ==
    PaintDone =>
        /\ \A strength \in PaintStrengths \cup {3, 10} :
              LET other == new_hsv(paint_args.px, paint_ret.mask_full,
                                   paint_args.target_rgb, strength)
              IN  /\ other.h = paint_ret.new_hsv.h
                  /\ other.v = paint_ret.new_hsv.v
        /\ paint_ret.new_hsv.h = paint_ret.new_H.num \div paint_ret.new_H.den
        /\ (paint_args.strength = 0 /\ paint_ret.mask_full = Frac(1, 1)) =>
              paint_ret.new_hsv.h = paint_ret.H_t

\* strength 0 on a fully masked pixel of another hue: the hue is the target's,
\* the saturation is the original one and differs from what strength 0.8 gives
C30_ZeroStrengthShiftsHue ==
    /\ PaintDone
    /\ paint_args.strength = 0 /\ paint_ret.mask_full = Frac(1, 1)
    /\ paint_ret.H_orig # paint_ret.H_t /\ paint_ret.new_hsv.h = paint_ret.H_t
    /\ new_hsv(paint_args.px, paint_ret.mask_full, paint_args.target_rgb, 8).s
           # paint_ret.new_hsv.s

(***************************************************************************)
(* segment.py: _grabcut_from_points.  The GrabCut mask holds one of the    *)
(* four labels of cv2 at each pixel.  cv2.grabCut with GC_INIT_WITH_MASK   *)
(* never relabels a pixel given as GC_BGD or GC_FGD; a pixel given as      *)
(* GC_PR_BGD or GC_PR_FGD comes back as either of the two, which one is    *)
(* the image's affair and is chosen freely here.  It rejects a mask with   *)
(* no foreground sample or no background sample.  Points are (py, px),     *)
(* counted from 0.                                                         *)
(***************************************************************************)
Definite == {"GC_BGD", "GC_FGD"}

Probable == {"GC_PR_BGD", "GC_PR_FGD"}

\* lines 25-28, 30-33: is pixel (y, x) in the square seeded around a point
\* that lies inside the image
InSeed(y, x, point, r, h, w) ==
    LET py == point[1]
        px == point[2]
    IN  /\ 0 <= px /\ px < w /\ 0 <= py /\ py < h
        /\ Max(0, py - r) <= y /\ y < Min(h, py + r + 1)
        /\ Max(0, px - r) <= x /\ x < Min(w, px + r + 1)

InSeeds(y, x, points, r, h, w) ==
    \E i \in DOMAIN points : InSeed(y, x, points[i], r, h, w)

\* lines 20-33: np.full((h, w), cv2.GC_BGD), then the foreground squares,
\* then the background squares over them
SeedMask(h, w, fg_points, bg_points, seed_radius) ==
    LET r == Max(1, seed_radius)
    IN  ndarray([y \in 1..h |-> [x \in 1..w |->
            IF InSeeds(y - 1, x - 1, bg_points, r, h, w) THEN "GC_BGD"
            ELSE IF InSeeds(y - 1, x - 1, fg_points, r, h, w) THEN "GC_FGD"
            ELSE "GC_BGD"]])

\* the masks cv2.grabCut may leave for a given initial mask
GrabCutResults(mask) ==
    {ndarray([y \in 1..Rows(mask) |-> [x \in 1..Cols(mask) |->
         IF mask[y][x] \in Definite THEN mask[y][x]
         ELSE IF <<y, x>> \in fg THEN "GC_PR_FGD" ELSE "GC_PR_BGD"]]) :
       fg \in SUBSET {p \in Cells(mask) : mask[p[1]][p[2]] \in Probable}}

\* line 39: 1.0 where the label is GC_FGD or GC_PR_FGD
ForegroundOf(mask) ==
    ndarray([y \in 1..Rows(mask) |-> [x \in 1..Cols(mask) |->
        IF mask[y][x] \in {"GC_FGD", "GC_PR_FGD"} THEN 1 ELSE 0]])

SeedSizes == {<<1, 3>>, <<1, 5>>, <<2, 4>>}

SeedRadii == {0, 1, 2}

\* points inside the image and just outside it
SeedPoints(h, w) == (0..h) \X (-1..(w - 1))

\* the lists of at most n such points
PointLists(h, w, n) == UNION {[1..k -> SeedPoints(h, w)] : k \in 0..n}

InitSeed ==
    /\ \E size \in SeedSizes :
          \E fg_points \in PointLists(size[1], size[2], 2),
             bg_points \in PointLists(size[1], size[2], 1), r \in SeedRadii :
             seed_args = [h |-> size[1], w |-> size[2], fg_points |-> fg_points,
                          bg_points |-> bg_points, seed_radius |-> r]
    /\ seed_ret = Pending
    /\ ColorIdle /\ RecolorIdle /\ RefineIdle /\ ShadowIdle /\ RectIdle /\ PointsIdle
    /\ MatchIdle /\ ReplayIdle /\ PaintIdle /\ DetectIdle /\ UiIdle

\* lines 20-33
DrawSeeds ==
    /\ seed_ret = Pending
    /\ seed_ret' = [kind |-> "seeded",
                    mask |-> SeedMask(seed_args.h, seed_args.w, seed_args.fg_points,
                                      seed_args.bg_points, seed_args.seed_radius)]
    /\ UNCHANGED <<seed_args, colorVars, recolorVars, refineVars, shadowVars, rectVars,
                   pointsVars, matchVars, replayVars, paintVars, detectVars, uiVars>>

\* lines 35-40
GrabCut ==
    /\ seed_ret.kind = "seeded"
    /\ LET labels == {seed_ret.mask[p[1]][p[2]] : p \in Cells(seed_ret.mask)}
       IN  IF labels \cap {"GC_FGD", "GC_PR_FGD"} = {}
              \/ labels \cap {"GC_BGD", "GC_PR_BGD"} = {}
           THEN seed_ret' = [kind |-> "raise", exc |-> "cv2.error", seeded |-> seed_ret.mask]
           ELSE \E m \in GrabCutResults(seed_ret.mask) :
                   seed_ret' = [kind |-> "return", seeded |-> seed_ret.mask, mask |-> m,
                                out |-> ForegroundOf(m)]
    /\ UNCHANGED <<seed_args, colorVars, recolorVars, refineVars, shadowVars, rectVars,
                   pointsVars, matchVars, replayVars, paintVars, detectVars, uiVars>>

NextSeed == DrawSeeds \/ GrabCut

SpecSeed == InitSeed /\ [][NextSeed]_vars

SeedRadius == Max(1, seed_args.seed_radius)

InFgSeed(p) ==
    InSeeds(p[1] - 1, p[2] - 1, seed_args.fg_points, SeedRadius, seed_args.h, seed_args.w)

InBgSeed(p) ==
    InSeeds(p[1] - 1, p[2] - 1, seed_args.bg_points, SeedRadius, seed_args.h, seed_args.w)

\* C22: only the pixels inside a seed region around a foreground or background
\* point are initialized as definite; every other pixel is initialized as
\* unknown (probable), so that the segmentation may classify it either way.
C22_OnlySeedsDefinite ==
    (seed_ret # Idle /\ seed_ret.kind = "seeded") =>
        \A p \in Cells(seed_ret.mask) :
            /\ InBgSeed(p) => seed_ret.mask[p[1]][p[2]] = "GC_BGD"
            /\ (InFgSeed(p) /\ ~InBgSeed(p)) => seed_ret.mask[p[1]][p[2]] = "GC_FGD"
            /\ (~InFgSeed(p) /\ ~InBgSeed(p)) => seed_ret.mask[p[1]][p[2]] \in Probable

\* what lines 21-40 give: every pixel is definite, and the returned mask is 1
\* exactly on the foreground squares that no background square covers
C22_MaskIsForegroundSeeds ==
    /\ (seed_ret # Idle /\ seed_ret.kind = "seeded") =>
           \A p \in Cells(seed_ret.mask) : seed_ret.mask[p[1]][p[2]] \in Definite
    /\ (seed_ret # Idle /\ seed_ret.kind = "return") =>
           \A p \in Cells(seed_ret.out) :
               seed_ret.out[p[1]][p[2]] = 1 <=> (InFgSeed(p) /\ ~InBgSeed(p))

(***************************************************************************)
(* detect.py, grounding_dino_wrapper.py: detect_objects.  model_cache is   *)
(* the module global _model_cache (0: None, else the caller that stored    *)
(* it).  Gradio may run two handlers at once, so callers overlap.  What    *)
(* imports, which files exist, whether the model loads and what the        *)
(* inference finds is the environment's choice.  err is the third element  *)
(* of the result: "None" or the kind of message.                           *)
(***************************************************************************)
IdleDetector ==
    [pc |-> "idle", use_grounding_dino |-> FALSE, model |-> 0, objs |-> "[]",
     ok |-> FALSE, mode |-> "None", err |-> "None", loaded |-> FALSE]

\* detect.py lines 28-30 with the test of `ok` dropped
DetectResult_IgnoreOk(d, objs, ok, err) ==
    [d EXCEPT !.pc = "done", !.objs = objs, !.ok = ok,
              !.mode = "grounding_dino", !.err = "None"]

\* detect.py lines 28-30: if ok: return objs, "grounding_dino", None;
\* return [], "none", err
DetectResult(d, objs, ok, err) ==
    IF ok
    THEN [d EXCEPT !.pc = "done", !.objs = objs, !.ok = TRUE,
                   !.mode = "grounding_dino", !.err = "None"]
    ELSE [d EXCEPT !.pc = "done", !.objs = "[]", !.ok = FALSE,
                   !.mode = "none", !.err = err]

\* grounding_dino_wrapper.py lines 158-161 (and 52-55 before it, which
\* re-raises): return [], False, str(e); detect.py line 39 passes it on
RunException(d, what) == DetectResult(d, "[]", FALSE, what)

\* detect.py lines 40-43: except Exception as e: return [], False, str(e)
DetectException(d, what) == DetectResult(d, "[]", FALSE, what)

notDetectVars == <<colorVars, recolorVars, refineVars, shadowVars, rectVars, pointsVars, matchVars, replayVars, paintVars, seedVars, uiVars>>

\* detect.py lines 26-31
DetectObjects(p) ==
    /\ detectors[p].pc = "idle"
    /\ \E use \in BOOLEAN :
          detectors' = [detectors EXCEPT ![p] =
              IF use
              THEN [IdleDetector EXCEPT !.use_grounding_dino = TRUE,
                                        !.loaded = detectors[p].loaded,
                                        !.pc = "import"]
              ELSE [IdleDetector EXCEPT !.loaded = detectors[p].loaded,
                                        !.mode = "none", !.pc = "done"]]
    /\ UNCHANGED <<model_cache, notDetectVars>>

\* detect.py line 37: from app.ml.grounding_dino_wrapper import run_grounding_dino;
\* then grounding_dino_wrapper.py lines 124-125 (PIL, app.utils.cache)
ImportDino(p) ==
    /\ detectors[p].pc = "import"
    /\ \E found \in {"ok", "no wrapper", "no PIL"} :
          detectors' = [detectors EXCEPT ![p] =
              IF found = "ok" THEN [@ EXCEPT !.pc = "get_model"]
              ELSE IF found = "no wrapper" THEN DetectException(@, "import")
              ELSE RunException(@, "import")]
    /\ UNCHANGED <<model_cache, notDetectVars>>

\* grounding_dino_wrapper.py lines 22-30, then 127-133 when the model is None
GetModel(p) ==
    /\ detectors[p].pc = "get_model"
    /\ IF model_cache # 0
       THEN detectors' = [detectors EXCEPT ![p] =
                            [@ EXCEPT !.model = model_cache, !.pc = "infer"]]
       ELSE \E found \in {"ok", "no torch", "no checkpoint", "no config"} :
               detectors' = [detectors EXCEPT ![p] =
                   IF found = "ok" THEN [@ EXCEPT !.pc = "load"]
                   ELSE IF found = "no torch" THEN RunException(@, "import")
                   ELSE IF found = "no checkpoint"
                        THEN DetectResult(@, "[]", FALSE, "Checkpoint not found")
                   ELSE DetectResult(@, "[]", FALSE, "Config not found")]
    /\ UNCHANGED <<model_cache, notDetectVars>>

\* grounding_dino_wrapper.py lines 31-51: build the model, load the state dict
\* and store (model, device) in the global; lines 52-55 re-raise a failure
LoadDino(p) ==
    /\ detectors[p].pc = "load"
    /\ \E ok \in BOOLEAN :
          IF ok
          THEN /\ model_cache' = p
               /\ detectors' = [detectors EXCEPT ![p] =
                                   [@ EXCEPT !.model = p, !.loaded = TRUE, !.pc = "infer"]]
          ELSE /\ model_cache' = model_cache
               /\ detectors' = [detectors EXCEPT ![p] = RunException(@, "load")]
    /\ UNCHANGED notDetectVars

\* grounding_dino_wrapper.py lines 134-157
InferDino(p) ==
    /\ detectors[p].pc = "infer"
    /\ \E found \in {"boxes", "[]", "raises"} :
          detectors' = [detectors EXCEPT ![p] =
              IF found = "raises" THEN RunException(@, "inference")
              ELSE DetectResult(@, found, TRUE, "None")]
    /\ UNCHANGED <<model_cache, notDetectVars>>

\* the caller has its (objects, mode, error) and may call again
DetectReturn(p) ==
    /\ detectors[p].pc = "done"
    /\ detectors' = [detectors EXCEPT ![p] = [@ EXCEPT !.pc = "idle"]]
    /\ UNCHANGED <<model_cache, notDetectVars>>

InitDetect ==
    /\ model_cache = 0
    /\ detectors = [p \in Callers |-> IdleDetector]
    /\ ColorIdle /\ RecolorIdle /\ RefineIdle /\ ShadowIdle /\ RectIdle /\ PointsIdle
    /\ MatchIdle /\ ReplayIdle /\ PaintIdle /\ SeedIdle /\ UiIdle

NextDetect ==
    \E p \in Callers :
        \/ DetectObjects(p)
        \/ ImportDino(p)
        \/ GetModel(p)
        \/ LoadDino(p)
        \/ InferDino(p)
        \/ DetectReturn(p)

SpecDetect == InitDetect /\ [][NextDetect]_vars

\* C11: detect_objects never raises.  Disabled, it returns ([], 'none', None);
\* enabled, its mode is 'grounding_dino' exactly when the detector ran
\* successfully (and then there is no error), and after a missing checkpoint
\* or config, a failed import, a failed load or a failed inference it returns
\* ([], 'none', message).
C11_DetectNeverRaises ==
    \A p \in Callers :
        LET d == detectors[p]
        IN  /\ d.pc # "raised"
            /\ d.pc = "done" =>
                  /\ ~d.use_grounding_dino =>
                        (d.objs = "[]" /\ d.mode = "none" /\ d.err = "None")
                  /\ d.use_grounding_dino =>
                        /\ d.mode = "grounding_dino" <=> d.ok
                        /\ d.ok => (d.err = "None" /\ d.model # 0)
                        /\ ~d.ok => (d.objs = "[]" /\ d.mode = "none"
                                     /\ d.err \in {"import", "load", "inference",
                                                   "Checkpoint not found",
                                                   "Config not found"})

\* an enabled call whose inference failed on a model another caller cached
\* has returned ([], 'none', message)
C11_InferenceFailed ==
    \E p \in Callers :
        LET d == detectors[p]
        IN  /\ d.pc = "done" /\ d.use_grounding_dino /\ d.err = "inference"
            /\ d.mode = "none" /\ d.model # 0 /\ d.model # p

(***************************************************************************)
(* ui.py: the session.  state is the gr.State dictionary; a missing key    *)
(* and a key holding None read the same through state.get(...), so both    *)
(* are None here (selected_idx: -1, detections: the empty list).  An       *)
(* image, a mask and a painted image are records of where they came from.  *)
(***************************************************************************)
MaxImages == 2

\* what the user can put into the upload widget
UploadFiles ==
    {[kind |-> "nofile"], [kind |-> "bad_extension"], [kind |-> "too_large"],
     [kind |-> "undecodable"]}
    \cup {[kind |-> "picture", id |-> i] : i \in 1..MaxImages}

\* load_image of picture i: an RGBA array of i+1 by 2 pixels
LoadImage(file) == [kind |-> "image", id |-> file.id, w |-> file.id + 1, h |-> 2]

\* lines 35-56: (error message, image)
validate_upload(file) ==
    IF file.kind = "nofile" THEN [err |-> "No file uploaded", img |-> None]
    ELSE IF file.kind = "bad_extension" THEN [err |-> "Allowed formats", img |-> None]
    ELSE IF file.kind = "too_large" THEN [err |-> "File too large", img |-> None]
    ELSE IF file.kind = "undecodable" THEN [err |-> "load_image failed", img |-> None]
    ELSE [err |-> "", img |-> LoadImage(file)]

\* gr.State({}): no key is set
EmptyState ==
    [image |-> None, detections |-> <<>>, selected_idx |-> -1, mask |-> None,
     painted |-> None, metadata |-> None, segment_mode |-> "None",
     detect_mode |-> "None"]

\* lines 68-77: the dictionary a successful upload creates
FreshState(img) ==
    [image |-> img, detections |-> <<>>, selected_idx |-> -1, mask |-> None,
     painted |-> None, metadata |-> None, segment_mode |-> "grabcut_rect",
     detect_mode |-> "none"]

\* a handler call: the pipeline stages it ran, the message it reported and
\* what it returned besides the state
Call(op, invoked, msg, out) == [op |-> op, invoked |-> invoked, msg |-> msg, out |-> out]

\* on_upload replacing the image only, without the reset of lines 68-77
on_upload_KeepsResults(file) ==
    LET v == validate_upload(file)
    IN  IF v.err # ""
        THEN /\ state' = state
             /\ last' = Call("on_upload", {}, v.err, None)
        ELSE /\ state' = [state EXCEPT !.image = v.img]
             /\ last' = Call("on_upload", {}, "", None)

\* lines 64-83
on_upload(file) ==
    LET v == validate_upload(file)
    IN  IF v.err # ""
        THEN /\ state' = state
             /\ last' = Call("on_upload", {}, v.err, None)
        ELSE /\ state' = FreshState(v.img)
             /\ last' = Call("on_upload", {}, "", None)

\* what the detector can return for an image: (objects, mode, error)
Cat(img) == [label |-> "cat", confidence |-> 904, bbox |-> <<0, 0, img.w, img.h>>]
Dog(img) == [label |-> "dog", confidence |-> 350, bbox |-> <<1, 0, img.w, 1>>]

DetectionResults(img, use_grounding_dino) ==
    IF use_grounding_dino
    THEN {[objs |-> <<>>, mode |-> "none", err |-> "checkpoint not found"],
          [objs |-> <<>>, mode |-> "grounding_dino", err |-> ""],
          [objs |-> <<Cat(img)>>, mode |-> "grounding_dino", err |-> ""],
          [objs |-> <<Dog(img), Cat(img)>>, mode |-> "grounding_dino", err |-> ""]}
    ELSE {[objs |-> <<>>, mode |-> "none", err |-> ""]}

\* f"{o.label} ({o.confidence:.2f})": the confidence (in thousandths) to two decimals
DropdownLabel(o) == <<o.label, PyRound(o.confidence, 10)>>

\* lines 86-103
on_detect(use_grounding_dino) ==
    IF state.image = None
    THEN /\ state' = state
         /\ last' = Call("on_detect", {}, "Upload an image first.", None)
    ELSE \E res \in DetectionResults(state.image, use_grounding_dino) :
           /\ state' = [state EXCEPT !.detections = res.objs, !.detect_mode = res.mode]
           /\ last' = Call("on_detect", {"detect"},
                           IF Len(res.objs) > 0 THEN "Detected"
                           ELSE IF res.mode = "grounding_dino" THEN "found no objects"
                           ELSE IF res.err # "" THEN "Detection failed"
                           ELSE "No detector used",
                           None)

\* the dropdown entries a user can pick
Choices == {<<"None", 0>>, <<"cat", 90>>, <<"dog", 35>>}

\* round(v / size * 100, 1), in tenths of a percent
BoxPct(v, size) == PyRoundSigned(v * 1000, size)

\* lines 106-136; the sliders are given and returned in tenths of a percent
on_select_object(choice, sliders) ==
    IF state.image = None \/ Len(state.detections) = 0
    THEN /\ state' = state
         /\ last' = Call("on_select_object", {}, "", sliders)
    ELSE LET objs == state.detections
             hits == {i \in 1..Len(objs) : DropdownLabel(objs[i]) = choice}
             found == choice[1] # "None" /\ hits # {}
             first == CHOOSE i \in hits : \A j \in hits : i <= j
             idx == IF found THEN first - 1 ELSE -1
             img == state.image
             bb == objs[first].bbox
         IN  /\ state' = [state EXCEPT !.selected_idx = idx]
             /\ last' = Call("on_select_object", {}, "",
                             IF found
                             THEN <<BoxPct(bb[1], img.w), BoxPct(bb[2], img.h),
                                    BoxPct(bb[3], img.w), BoxPct(bb[4], img.h)>>
                             ELSE sliders)

\* refine_mask applied to a segmentation: where it came from and how it was refined
RefinedMask(img, seg, morph_kernel, feather_px, mask_threshold) ==
    [kind |-> "mask", image |-> img.id, rect |-> seg.rect,
     refine |-> <<morph_kernel, feather_px, mask_threshold>>, shadow |-> <<>>]

\* on_generate_mask without the box test of lines 143-144
on_generate_mask_NoBoxCheck(box, morph_kernel, feather_px, mask_threshold) ==
    IF state.image = None
    THEN /\ state' = state
         /\ last' = Call("on_generate_mask", {}, "Upload an image first.", None)
    ELSE LET seg == segment_from_rect(state.image.w, state.image.h,
                                      box[1], box[2], box[3], box[4])
             mask == RefinedMask(state.image, seg, morph_kernel, feather_px,
                                 mask_threshold)
         IN  /\ state' = [state EXCEPT !.segment_mode = seg.mode, !.mask = mask]
             /\ last' = Call("on_generate_mask", {"segment", "refine"},
                             "Mask generated", None)

\* lines 139-153; box: <<left, top, right, bottom>> in tenths of a percent
on_generate_mask(box, morph_kernel, feather_px, mask_threshold) ==
        IF state.image = None
        THEN /\ state' = state
             /\ last' = Call("on_generate_mask", {}, "Upload an image first.", None)
        ELSE IF box[1] >= box[3] \/ box[2] >= box[4]
        THEN /\ state' = state
             /\ last' = Call("on_generate_mask", {}, "Invalid box", None)
        ELSE LET seg == segment_from_rect(state.image.w, state.image.h,
                                          box[1], box[2], box[3], box[4])
                 mask == RefinedMask(state.image, seg, morph_kernel, feather_px,
                                     mask_threshold)
             IN  /\ state' = [state EXCEPT !.segment_mode = seg.mode, !.mask = mask]
                 /\ last' = Call("on_generate_mask", {"segment", "refine"},
                                 "Mask generated", None)

\* lines 166-171 and 174-175: (text or "").strip(), then a "#" in front unless
\* the text starts with one or holds "rgba"
WithHash(text) ==
    LET t == Strip(text)
    IN  IF Len(t) > 0 /\ ~StartsWith(t, <<"#">>)
           /\ ~Contains(Lower(t), <<"r", "g", "b", "a">>)
        THEN <<"#">> \o t ELSE t

DefaultRedText == <<"#", "F", "F", "0", "0", "0", "0">>

PaintColor(color_hex) ==
    IF Len(Strip(color_hex)) = 0 THEN DefaultRedText ELSE WithHash(color_hex)

\* the values the widgets can hold (ui.py lines 233-269), percentages in tenths
BoxHints ==
    {<<150, 150, 850, 850>>, <<0, 0, 500, 1000>>, <<500, 500, 400, 900>>,
     <<100, 600, 900, 600>>}

PaintTexts ==
    {<<"#", "E", "5", "3", "9", "3", "5">>, <<>>,
     <<"r", "g", "b", "(", ".", ",", "0", ",", "0", ")">>}

ReplaceTexts == {<<"#", "F", "F", "E", "B", "3", "B">>}

\* lines 166-171 and 192 for each paint text, lines 174-175 for each replace
\* text: the normalised text and parse_color_to_rgb of it, computed once
PaintTable ==
    {[raw |-> c, text |-> PaintColor(c),
      rgb |-> parse_color_to_rgb([str |-> TRUE, text |-> PaintColor(c)])] :
        c \in PaintTexts}

ReplaceTable ==
    {[raw |-> c, text |-> WithHash(c),
      rgb |-> parse_color_to_rgb([str |-> TRUE, text |-> WithHash(c)])] :
        c \in ReplaceTexts}

PaintEntry(color_hex) == CHOOSE p \in PaintTable : p.raw = color_hex

ReplaceEntry(replace_color_hex) == CHOOSE p \in ReplaceTable : p.raw = replace_color_hex

\* f"{v:02x}"
Hex02(v) ==
    LET digit(k) == IF k < 10 THEN DecDigits[k + 1] ELSE HexLower[k - 9]
        a == Abs(v)
        digits == IF a < 16 THEN <<digit(a)>>
                  ELSE IF a < 256 THEN <<digit(a \div 16), digit(a % 16)>>
                  ELSE <<digit(a \div 256), digit((a \div 16) % 16), digit(a % 16)>>
    IN  IF v < 0 THEN <<"-">> \o digits
        ELSE IF Len(digits) = 1 THEN <<"0">> \o digits ELSE digits

\* f"#{r:02x}{g:02x}{b:02x}"
ColorHexDisplay(c) == <<"#">> \o Hex02(c.r) \o Hex02(c.g) \o Hex02(c.b)

\* run_expand_mask_shadow: the mask grown by the shadow ring
ExpandedMask(mask, dilation_px, shadow_value_threshold) ==
    [mask EXCEPT !.shadow = <<dilation_px, shadow_value_threshold>>]

\* lines 193-198: the label written to the metadata
SelectedLabel(st) ==
    IF Len(st.detections) > 0 /\ st.selected_idx # -1
       /\ 0 <= st.selected_idx /\ st.selected_idx < Len(st.detections)
    THEN st.detections[st.selected_idx + 1].label
    ELSE "None"

\* lines 156-205; shadow_darkness in hundredths
on_apply_recolor(color_hex, recolor_strength, use_replace_color, replace_color_hex, hue_tolerance_degrees, include_shadow, shadow_extent_px, shadow_darkness) ==
    LET replacing == use_replace_color /\ Len(replace_color_hex) > 0
        mask == IF include_shadow
                THEN ExpandedMask(state.mask, Max(5, shadow_extent_px),
                                  Max(15, Min(85, shadow_darkness)))
                ELSE state.mask
        rgb == PaintEntry(color_hex).rgb
        src == IF replacing /\ Len(ReplaceEntry(replace_color_hex).text) > 0
               THEN ReplaceEntry(replace_color_hex).rgb ELSE None
        stages == IF include_shadow THEN {"expand", "recolor"} ELSE {"recolor"}
        painted == [kind |-> "painted", image |-> state.image.id, mask |-> mask,
                    target |-> rgb, strength |-> recolor_strength, source |-> src,
                    hue_tolerance |-> Max(5, Min(90, hue_tolerance_degrees))]
        meta == [kind |-> "metadata", image |-> state.image.id,
                 selected_object |-> SelectedLabel(state),
                 color_hex |-> ColorHexDisplay(rgb),
                 detection_mode |-> state.detect_mode,
                 segmentation_mode |-> state.segment_mode]
    IN  IF state.image = None
        THEN /\ state' = state
             /\ last' = Call("on_apply_recolor", {}, "Upload an image first.", None)
        ELSE IF state.mask = None
        THEN /\ state' = state
             /\ last' = Call("on_apply_recolor", {}, "Generate a mask first.", None)
        ELSE IF rgb.kind = "raise" \/ src.kind = "raise"
        THEN \* recolor_masked_region raises before anything is stored
             /\ state' = state
             /\ last' = Call("on_apply_recolor", stages, "ValueError", None)
        ELSE /\ state' = [state EXCEPT !.painted = painted, !.metadata = meta]
             /\ last' = Call("on_apply_recolor", stages, "Recolor applied.", None)

\* on_export without the test of line 209
on_export_NoCheck ==
    /\ state' = state
    /\ last' = Call("on_export", {"export"}, "Exported",
                    [kind |-> "files", painted |-> state.painted,
                     mask |-> state.mask, metadata |-> state.metadata])

\* lines 208-214
on_export ==
    IF state.painted = None \/ state.mask = None \/ state.metadata = None
    THEN /\ state' = state
         /\ last' = Call("on_export", {}, "Generate mask and apply recolor first.", None)
    ELSE /\ state' = state
         /\ last' = Call("on_export", {"export"}, "Exported",
                         [kind |-> "files", painted |-> state.painted,
                          mask |-> state.mask, metadata |-> state.metadata])

\* the handler calls that have succeeded so far, and the label of the object
\* the user last selected
Succeeded(call) ==
    \/ call.op = "on_upload" /\ call.msg = ""
    \/ call.op = "on_generate_mask" /\ call.msg = "Mask generated"
    \/ call.op = "on_apply_recolor" /\ call.msg = "Recolor applied."
    \/ call.op = "on_export" /\ call.msg = "Exported"

Remember(chosen) ==
    history' = [succeeded |-> IF Succeeded(last') THEN history.succeeded \cup {last'.op}
                              ELSE history.succeeded,
                chosen |-> chosen]

Init ==
    /\ state = EmptyState
    /\ last = Call("none", {}, "", None)
    /\ history = [succeeded |-> {}, chosen |-> "None"]
    /\ ColorIdle /\ RecolorIdle /\ RefineIdle /\ ShadowIdle /\ RectIdle /\ PointsIdle
    /\ DetectIdle /\ MatchIdle /\ ReplayIdle /\ PaintIdle /\ SeedIdle

Idles ==
    <<colorVars, recolorVars, refineVars, shadowVars, rectVars, pointsVars, matchVars,
      replayVars, paintVars, detectVars, seedVars>>

Upload ==
    /\ \E file \in UploadFiles : on_upload(file)
    /\ Remember(IF Succeeded(last') THEN "None" ELSE history.chosen)
    /\ UNCHANGED Idles

Detect ==
    /\ \E use \in BOOLEAN : on_detect(use)
    /\ Remember(history.chosen)
    /\ UNCHANGED Idles

SelectObject ==
    /\ \E choice \in Choices :
          /\ on_select_object(choice, <<150, 150, 850, 850>>)
          /\ Remember(IF state.image = None \/ Len(state.detections) = 0
                      THEN history.chosen
                      ELSE IF state'.selected_idx = -1 THEN "None" ELSE choice[1])
    /\ UNCHANGED Idles

GenerateMask ==
    /\ \E box \in BoxHints : on_generate_mask(box, 3, 2, 50)
    /\ Remember(history.chosen)
    /\ UNCHANGED Idles

ApplyRecolor ==
    /\ \E color \in PaintTexts, replace \in BOOLEAN, shadow \in BOOLEAN,
          source \in ReplaceTexts :
          on_apply_recolor(color, 8, replace, source, 28, shadow, 20, 50)
    /\ Remember(history.chosen)
    /\ UNCHANGED Idles

Export == on_export /\ Remember(history.chosen) /\ UNCHANGED Idles

Next == Upload \/ Detect \/ SelectObject \/ GenerateMask \/ ApplyRecolor \/ Export

Spec == Init /\ [][Next]_vars

InvalidBox(box) == box[1] >= box[3] \/ box[2] >= box[4]

\* C8: a call of on_generate_mask with left >= right or top >= bottom reports
\* an error, runs neither segmentation nor refinement, and leaves the session
\* state (image, mask, painted, metadata, segment_mode, ...) as it was.
C8_InvalidBoxRejected ==
    [][\A box \in BoxHints :
          (InvalidBox(box) /\ on_generate_mask(box, 3, 2, 50)) =>
              /\ state' = state
              /\ last'.invoked = {}
              /\ last'.msg \in {"Invalid box", "Upload an image first."}]_vars

\* an invalid box has been rejected in a session that already holds a mask
\* and a painted image
C8_RejectedWithMask ==
    /\ last.op = "on_generate_mask" /\ last.msg = "Invalid box"
    /\ state.mask # None /\ state.painted # None

\* the message of a handler whose precondition fails
TooEarly(op) ==
    CASE op = "on_generate_mask" -> {"Upload an image first."}
      [] op = "on_apply_recolor" -> {"Upload an image first.", "Generate a mask first."}
      [] op = "on_export" -> {"Generate mask and apply recolor first."}

\* the handler that must have succeeded before op can
Before(op) ==
    CASE op = "on_generate_mask" -> "on_upload"
      [] op = "on_apply_recolor" -> "on_generate_mask"
      [] op = "on_export" -> "on_apply_recolor"

\* C26: in every sequence of handler calls from the empty session, on_export
\* writes files only after a successful on_apply_recolor, on_apply_recolor
\* paints only after a successful on_generate_mask, on_generate_mask makes a
\* mask only after a successful upload; a handler called too early reports a
\* message and leaves the state unchanged.
C26_PipelineOrder ==
    [][\A op \in {"on_generate_mask", "on_apply_recolor", "on_export"} :
          (last'.op = op /\ Before(op) \notin history.succeeded) =>
              /\ ~Succeeded(last')
              /\ last'.invoked = {}
              /\ last'.msg \in TooEarly(op)
              /\ state' = state]_vars

\* an export was refused in a session with an image and a mask, not yet painted
C26_ExportTooEarly ==
    /\ last.op = "on_export" /\ last.msg = "Generate mask and apply recolor first."
    /\ history.succeeded = {"on_upload", "on_generate_mask"}
    /\ state.mask # None

\* C27: whenever on_export succeeds, the exported painted image was computed
\* by recolouring with exactly the mask held in state['mask'].
C27_PaintedFromExportedMask ==
    (last.op = "on_export" /\ Succeeded(last)) =>
        last.out.painted.mask = last.out.mask

\* what the handlers do keep: the exported painted image and metadata were
\* computed from the image the exported mask was computed from
C27_ExportedFromOneImage ==
    (last.op = "on_export" /\ Succeeded(last)) =>
        /\ last.out.painted.image = last.out.mask.image
        /\ last.out.metadata.image = last.out.mask.image

\* a non-null mask, painted image or metadata comes from the held image
FromHeldImage(st) ==
    /\ st.mask # None => st.image # None /\ st.mask.image = st.image.id
    /\ st.painted # None => st.image # None /\ st.painted.image = st.image.id
    /\ st.metadata # None => st.image # None /\ st.metadata.image = st.image.id

\* C28: in every reachable session state a non-null mask, painted image or
\* metadata was computed from the image held in the state; a successful
\* upload replaces the image and resets mask, painted, metadata, detections
\* and selected index, a rejected upload leaves the whole state unchanged.
C28_ResultsOfHeldImage ==
    [][/\ FromHeldImage(state')
       /\ \A file \in UploadFiles :
             on_upload(file) =>
                 IF validate_upload(file).err = ""
                 THEN /\ state'.image = LoadImage(file)
                      /\ state'.mask = None /\ state'.painted = None
                      /\ state'.metadata = None /\ state'.detections = <<>>
                      /\ state'.selected_idx = -1
                 ELSE state' = state]_vars

\* a picture was uploaded into a session that had been painted and exported
C28_UploadAfterExport ==
    /\ last.op = "on_upload" /\ Succeeded(last)
    /\ "on_export" \in history.succeeded
    /\ state.image # None /\ state.mask = None /\ state.painted = None

\* C29: state['selected_idx'] is null or the index, in the current
\* detections, of the object the user last selected, and the
\* 'selected_object' on_apply_recolor writes is null or the label the user
\* chose from the current detections.
C29_SelectedIsChosen ==
    /\ state.selected_idx # -1 =>
          /\ state.selected_idx < Len(state.detections)
          /\ state.detections[state.selected_idx + 1].label = history.chosen
    /\ (last.op = "on_apply_recolor" /\ Succeeded(last)) =>
          state.metadata.selected_object \in {"None", history.chosen}

\* what on_select_object gives: right after a selection the index names the
\* chosen object
C29_ChosenWhenSelected ==
    (last.op = "on_select_object" /\ Len(state.detections) > 0
       /\ state.selected_idx # -1) =>
        /\ state.selected_idx < Len(state.detections)
        /\ state.detections[state.selected_idx + 1].label = history.chosen

=============================================================================
